---- MODULE Spec2Model ----
(***************************************************************************)
(* State-machine model of the NEXUS desktop client: the zustand store      *)
(* (nexusStore.ts) and the handlers of the views that drive it             *)
(* (chat input, command bar, Telegram polling, project board).             *)
(*                                                                         *)
(* Each handler is split at its `await`s: one action for the synchronous   *)
(* prefix up to the network call, one for the continuation that runs when  *)
(* the call resolves or rejects.  Closures keep the values they captured   *)
(* at the render that created them.                                        *)
(***************************************************************************)
EXTENDS Integers, Sequences, FiniteSets, TLC

\* ------------------------------------------------------------------ bounds
\* pushes explored in the notification specification (two past the cap)
MaxPushes == 52
\* notification ids 0..MaxDismissId are offered to dismissNotification
MaxDismissId == 2
\* sends (chat input and quick prompts together) explored in the chat specification
MaxSends == 2
\* executions of the "Clear Chat History" command explored
MaxClears == 1
\* inbound Telegram updates the bot receives
MaxUpdates == 3
\* getUpdates requests the polling timers start
MaxPolls == 3
\* clicks on "Connect Bot"
MaxConnects == 2
\* update ids 1..MaxBatchId and start offsets 0..MaxStartOffset of the
\* single-batch specification
MaxBatchId == 3
MaxStartOffset == 2
\* backend requests after which the project board's handlers start no more
MaxCalls == 4
\* unanswered backend requests beside which the user starts no further one
MaxInFlight == 2
\* notification ids up to which a rejected click on DELETE PROJECT is explored
MaxMismatches == 1

\* 250 ms exit timers pending for one toast at a time
MaxToastTimers == 2
\* sendMsg calls in the Telegram view
MaxTgSends == 1
\* letters of the queries typed into the command palette
MaxQueryLen == 1
\* checkHealth calls made in one run, by the health poll and the backend test
MaxHealthPolls == 2

\* ------------------------------------------------------- program constants
\* nexusStore.ts:162  .slice(0, 50)
NotifCap == 50
\* TelegramView.tsx:66  getUpdates?...&limit=10
UpdatesLimit == 10

\* JavaScript null (sessionId, activeProjectId)
null == "null"

VARIABLES
  \* ---- store (nexusStore.ts:113-144)
  messages,          \* Message[]
  sessionId,         \* string | null
  isLoading,         \* boolean
  currentView,       \* View
  notifications,     \* Notification[]
  unreadCount,       \* number
  commandBarOpen,    \* boolean
  listeners,         \* window keydown listeners, in registration order
  telegramConnected, \* boolean
  settings,          \* settings.telegramToken, settings.telegramChatId
  projects,          \* Project[]
  tasks,             \* Task[]
  activeProjectId,   \* id | null
  \* ---- TelegramView component state
  tgMessages,        \* messages: TelegramMessage[]
  isConnecting,      \* boolean
  pollRef,           \* pollRef.current of the mounted view: the interval
                     \* it polls with (index into offsets), 0 when none
  intervals,         \* the intervals set and not cleared (indexes into offsets)
  offsets,           \* `let offset` of each startPolling call, in call order
  \* ---- ProjectsView component state
  mounts,            \* how many times the view has been mounted (instance id)
  loading,           \* boolean
  showDeleteProject, \* boolean
  deleteConfirmationName, \* what is typed into the delete dialog
  dragging,          \* id of the card being dragged | null
  editingTask,       \* <<task>> the edit dialog was opened on | <<>> for null
  \* ---- Toast component state
  exiting,           \* the toasts' timers: pending 250 ms timers per id, and
                     \* the mounted toasts whose 5 s timer has fired
  \* ---- App health polling
  ollamaOnline,      \* boolean
  healthInFlight,    \* number of checkHealth calls that have not settled
  healthCount,       \* number of checkHealth calls made
  lastHealth,        \* <<[resp, result]>> of the call settled last, or <<>>
  \* ---- SettingsView backend test
  tests,             \* one record per testConnection call
  testing,           \* SettingsView's testing: the test running | null
  tab,               \* SettingsView's tab
  \* ---- async handlers in progress
  calls,             \* one record per backend request of the board, in order
  sends,             \* one record per submit / quickAsk call, in call order
  clears,            \* number of "Clear Chat History" commands run
  polls,             \* one record per getUpdates request, in request order
  connects,          \* one record per connectBot call, in call order
  tgSends,           \* one entry per sendMsg call, in call order
  \* ---- Telegram Bot API
  srvUpdates,        \* updates the server holds (not yet confirmed)
  srvCount,          \* updates the server has received so far
  \* ---- backend
  remoteProjects,    \* the projects the backend stores
  remoteTasks,       \* the tasks the backend stores
  remoteCount,       \* project ids the backend has handed out
  \* ---- environment
  uuid,              \* number of ids handed out by crypto.randomUUID()
  op                 \* the handler step taken last (history variable)

\* the window keydown listeners after mount: effects run child first, so
\* CommandBar's handler is registered before App's
MountListeners == <<"CommandBar", "App">>

\* the listeners after CommandBar's effect on [commandBarOpen] has run again:
\* its cleanup removes the handler and the effect adds the new one at the end
Resubscribed(ls) ==
  Append(SelectSeq(ls, LAMBDA c : c # "CommandBar"), "CommandBar")


storeChat == <<messages, sessionId, isLoading, currentView, commandBarOpen>>
chatVars  == <<messages, sessionId, isLoading, currentView, commandBarOpen,
               listeners, sends, clears>>
notifVars == <<notifications, unreadCount, exiting>>
healthPolling == <<ollamaOnline, healthInFlight, healthCount, lastHealth>>
settingsView == <<tests, testing, tab>>
healthVars == <<ollamaOnline, healthInFlight, healthCount, lastHealth, tests,
                testing, tab>>
botVars   == <<telegramConnected, tgMessages, isConnecting, pollRef, offsets,
               polls, connects, srvUpdates, srvCount, intervals, tgSends,
               settings>>
boardStore == <<projects, tasks, activeProjectId>>
boardView  == <<mounts, loading, showDeleteProject, deleteConfirmationName,
                dragging, editingTask>>
boardRemote == <<remoteProjects, remoteTasks, remoteCount>>
boardVars == <<projects, tasks, activeProjectId, mounts, loading,
               showDeleteProject, deleteConfirmationName, dragging, editingTask,
          calls,
               remoteProjects, remoteTasks, remoteCount>>
vars == <<messages, sessionId, isLoading, currentView, notifications,
          unreadCount, commandBarOpen, listeners, sends, clears, uuid, op,
          telegramConnected, tgMessages, isConnecting, pollRef, offsets,
          polls, connects, srvUpdates, srvCount,
          projects, tasks, activeProjectId, mounts, loading,
          showDeleteProject, deleteConfirmationName, dragging, editingTask,
          calls,
          remoteProjects, remoteTasks, remoteCount, exiting,
          ollamaOnline, healthInFlight, healthCount, lastHealth,
          intervals, tgSends, settings, tests, testing, tab>>

\* ----------------------------------------------------------------- helpers
Min(a, b) == IF a < b THEN a ELSE b
Max(a, b) == IF a > b THEN a ELSE b

\* Array.prototype.slice(start, end) for 0 <= start <= end
Slice(s, start, end) == SubSeq(s, start + 1, Min(end, Len(s)))

\* ------------------------------------------------------------ notifications
\* the record pushNotification builds: { ...n, id, timestamp, read: false }
NewNotification(n, id) ==
  [id |-> id, type |-> n.type, title |-> n.title, read |-> FALSE]

\* a plausible slip: the cap is not applied
PushedUncapped(q, n, id) == <<NewNotification(n, id)>> \o q
\* a plausible slip: slice(-50) keeps the last 50, dropping the head when full
PushedKeepsLast(q, n, id) ==
  LET all == <<NewNotification(n, id)>> \o q
  IN  SubSeq(all, Max(1, Len(all) - NotifCap + 1), Len(all))

\* notifications after pushNotification(n): [notif, ...s.notifications].slice(0, 50)
Pushed(q, n, id) == Slice(<<NewNotification(n, id)>> \o q, 0, NotifCap)

\* a plausible slip: the flag is flipped instead of set
AllReadToggles(q) == [i \in 1..Len(q) |-> [q[i] EXCEPT !.read = ~q[i].read]]

\* notifications after markAllRead
AllRead(q) == [i \in 1..Len(q) |-> [q[i] EXCEPT !.read = TRUE]]

\* notifications after dismissNotification(id)
Dismissed(q, id) == LET keep(n) == n.id # id IN SelectSeq(q, keep)

\* a plausible slip: the counter is decremented instead of recounted
UnreadAfterDismissDecrements(q, id) == Max(unreadCount - 1, 0)

\* unreadCount after dismissNotification(id)
UnreadAfterDismiss(q, id) ==
  LET keep(n) == ~n.read /\ n.id # id IN Len(SelectSeq(q, keep))

\* ToastContainer: the ids of the toasts on screen, the first four unread
\* entries of the queue
RecentIds(q) ==
  LET unread(n) == ~n.read
      recent == Slice(SelectSeq(q, unread), 0, 4)
  IN {recent[i].id : i \in 1..Len(recent)}

\* no toast is mounted and no exit timer is pending
NoToasts == [pending |-> <<>>, expired |-> {}]

\* the 250 ms timers pending for the toast of notification id
TimersOf(ex, id) == IF id \in DOMAIN ex.pending THEN ex.pending[id] ELSE 0

\* setExiting(true); setTimeout(onDismiss, 250): one more timer for id
TimerStarted(ex, id) ==
  [ex EXCEPT !.pending =
     [i \in DOMAIN ex.pending \cup {id} |->
        TimersOf(ex, i) + (IF i = id THEN 1 ELSE 0)]]

\* one of the 250 ms timers of id has fired
TimerFired(ex, id) ==
  [ex EXCEPT !.pending =
     [i \in {j \in DOMAIN ex.pending : j # id \/ ex.pending[j] > 1} |->
        ex.pending[i] - (IF i = id THEN 1 ELSE 0)]]

\* the toasts after the queue became q: a toast that left the screen is
\* unmounted and its 5 s timer cleared (a later mount starts a new one);
\* the 250 ms timers are not cleared
ToastsAfter(ex, q) == [ex EXCEPT !.expired = @ \cap RecentIds(q)]

\* the store fields pushNotification writes, for a handler that pushes n
PushEffect(n, id) ==
  /\ notifications' = Pushed(notifications, n, id)
  /\ unreadCount' = unreadCount + 1
  /\ exiting' = ToastsAfter(exiting, notifications')

NotifInputs == {[type |-> "info", title |-> "note"]}

pushNotification(n) ==
  /\ uuid < MaxPushes
  /\ PushEffect(n, uuid + 1)
  /\ uuid' = uuid + 1
  /\ UNCHANGED healthVars
  /\ op' = [name |-> "pushNotification", id |-> uuid + 1]
  /\ UNCHANGED <<botVars, boardVars>>
  /\ UNCHANGED chatVars

markAllRead ==
  /\ notifications' = AllRead(notifications)
  /\ unreadCount' = 0
  /\ exiting' = ToastsAfter(exiting, notifications')
  /\ UNCHANGED healthVars
  /\ op' = [name |-> "markAllRead", id |-> 0]
  /\ UNCHANGED <<botVars, boardVars>>
  /\ UNCHANGED <<chatVars, uuid>>

dismissNotification(id) ==
  /\ notifications' = Dismissed(notifications, id)
  /\ unreadCount' = UnreadAfterDismiss(notifications, id)
  /\ exiting' = ToastsAfter(exiting, notifications')
  /\ UNCHANGED healthVars
  /\ op' = [name |-> "dismissNotification", id |-> id]
  /\ UNCHANGED <<botVars, boardVars>>
  /\ UNCHANGED <<chatVars, uuid>>

\* Toast: the 5 s timer of a mounted toast fires, once per mount and whether
\* or not the x was clicked before; it marks the toast as exiting and starts
\* a 250 ms timer that will call onDismiss
toastExpired(id) ==
  /\ id \in RecentIds(notifications)
  /\ id \notin exiting.expired
  /\ TimersOf(exiting, id) < MaxToastTimers
  /\ exiting' = [TimerStarted(exiting, id) EXCEPT !.expired = @ \cup {id}]
  /\ UNCHANGED healthVars
  /\ op' = [name |-> "toastExpired", id |-> id]
  /\ UNCHANGED <<notifications, unreadCount, uuid>>
  /\ UNCHANGED <<chatVars, botVars, boardVars>>

\* Toast: the user clicks the x of a mounted toast, same body as the
\* timer's; the x stays clickable while the toast is exiting
toastClosed(id) ==
  /\ id \in RecentIds(notifications)
  /\ TimersOf(exiting, id) < MaxToastTimers
  /\ exiting' = TimerStarted(exiting, id)
  /\ UNCHANGED healthVars
  /\ op' = [name |-> "toastClosed", id |-> id]
  /\ UNCHANGED <<notifications, unreadCount, uuid>>
  /\ UNCHANGED <<chatVars, botVars, boardVars>>

\* Toast: a 250 ms timer fires and runs onDismiss, which the container
\* binds to dismissNotification(n.id); unmounting the toast does not cancel
\* this timer
toastDismissed(id) ==
  /\ TimersOf(exiting, id) > 0
  /\ notifications' = Dismissed(notifications, id)
  /\ exiting' = ToastsAfter(TimerFired(exiting, id), notifications')
  /\ unreadCount' = UnreadAfterDismiss(notifications, id)
  /\ UNCHANGED healthVars
  /\ op' = [name |-> "toastDismissed", id |-> id]
  /\ UNCHANGED <<botVars, boardVars>>
  /\ UNCHANGED <<chatVars, uuid>>

\* --------------------------------------------------------------------- text
\* a text is a sequence of characters (or of longer tokens)
RECURSIVE TrimStart(_)
TrimStart(t) ==
  IF t # <<>> /\ Head(t) = " " THEN TrimStart(Tail(t)) ELSE t

RECURSIVE TrimEnd(_)
TrimEnd(t) ==
  IF t # <<>> /\ t[Len(t)] = " " THEN TrimEnd(SubSeq(t, 1, Len(t) - 1)) ELSE t

\* String.prototype.trim
Trim(t) == TrimEnd(TrimStart(t))

\* -------------------------------------------------------------------- views
\* JavaScript undefined (an identifier field a task does not carry)
undefined == "undefined"

\* a backend request of the board: what the handler's closure captured when
\* it sent the request, and what the backend answered
NoCall ==
  [type |-> "", stage |-> "inflight", ok |-> TRUE, mount |-> 0,
   active |-> null, projects |-> <<>>, tasks |-> <<>>, data |-> <<>>,
   pid |-> null, name |-> <<>>, typed |-> <<>>, taskId |-> undefined,
   status |-> "", src |-> ""]

\* a handler that has run to its end holds nothing any more
Finished(call) == [NoCall EXCEPT !.type = call.type, !.stage = "done"]

\* the requests that have not been answered yet
InFlight(cs) == {c \in 1..Len(cs) : cs[c].stage # "done"}

\* the user starts another request (a bound of the exploration)
CanStart == Len(calls) < MaxCalls /\ Cardinality(InFlight(calls)) < MaxInFlight

\* GET /tasks/{pid}
TasksOf(ts, pid) == LET keep(t) == t.project_id = pid IN SelectSeq(ts, keep)

\* the request loadTasks(pid) sends
LoadTasksCall(pid) ==
  [NoCall EXCEPT !.type = "loadTasks", !.pid = pid, !.mount = mounts,
                 !.data = TasksOf(remoteTasks, pid)]

\* App renders VIEW_MAP[currentView]: when the view changes away from the
\* Telegram view, TelegramView unmounts; its cleanup clears the interval of
\* its ref and its component state is gone; what it had in flight answers to
\* an unmounted view
TelegramSwitch(v) ==
  IF currentView = "telegram" /\ v # "telegram"
  THEN /\ tgMessages' = <<>>
       /\ isConnecting' = FALSE
       /\ pollRef' = 0
       /\ intervals' = intervals \ {pollRef}
       /\ polls' = [p \in 1..Len(polls) |-> [polls[p] EXCEPT !.mounted = FALSE]]
       /\ connects' =
            [c \in 1..Len(connects) |-> [connects[c] EXCEPT !.mounted = FALSE]]
  ELSE UNCHANGED <<tgMessages, isConnecting, pollRef, intervals, polls,
                   connects>>

\* when the view changes to the board, ProjectsView mounts with fresh
\* component state and its two effects run (loadProjects, and loadTasks when
\* a project is active); when it changes away, the component state is gone
BoardSwitch(v) ==
  IF v = "projects" /\ currentView # "projects"
  THEN /\ mounts' = mounts + 1
       /\ loading' = TRUE
       /\ showDeleteProject' = FALSE
       /\ deleteConfirmationName' = <<>>
       /\ dragging' = null
       /\ editingTask' = <<>>
       /\ calls' = calls
            \o <<[NoCall EXCEPT !.type = "loadProjects", !.mount = mounts + 1,
                                !.active = activeProjectId,
                                !.data = remoteProjects]>>
            \o (IF activeProjectId # null
                THEN <<[LoadTasksCall(activeProjectId)
                          EXCEPT !.mount = mounts + 1]>>
                ELSE <<>>)
  ELSE IF currentView = "projects" /\ v # "projects"
  THEN /\ loading' = FALSE
       /\ showDeleteProject' = FALSE
       /\ deleteConfirmationName' = <<>>
       /\ dragging' = null
       /\ editingTask' = <<>>
       /\ UNCHANGED <<mounts, calls>>
  ELSE UNCHANGED <<mounts, loading, showDeleteProject, deleteConfirmationName,
                   dragging, editingTask, calls>>

\* when the view changes away from the settings view, SettingsView unmounts:
\* its state is gone (the next one starts on the integrations tab with no
\* test running) and a test in flight answers to an unmounted view
SettingsSwitch(v) ==
  IF currentView = "settings" /\ v # "settings"
  THEN /\ tests' = [k \in 1..Len(tests) |-> [tests[k] EXCEPT !.mounted = FALSE]]
       /\ testing' = null
       /\ tab' = "integrations"
  ELSE UNCHANGED settingsView

\* the store's setView(v) and the mounts and unmounts that follow from it
ShowView(v) ==
  /\ (v = "projects" /\ currentView # "projects") => CanStart
  /\ currentView' = v
  /\ TelegramSwitch(v)
  /\ BoardSwitch(v)
  /\ SettingsSwitch(v)
  /\ UNCHANGED <<telegramConnected, offsets, tgSends, settings, srvUpdates,
                 srvCount, projects, tasks, activeProjectId, remoteProjects,
                 remoteTasks, remoteCount>>

\* --------------------------------------------------------------------- chat
\* TelegramView.tsx:530 and CommandBar.tsx:48, the contents written on failure
OfflineNoticeChat ==
  <<"Backend offline. Run: uvicorn api.main:app --reload in /backend">>
OfflineNoticeQuick == <<"Backend offline">>

\* what the user typed into the chat input
ChatInputs == {<<"h", "i", " ">>, <<" ">>}
\* the prompts of the command bar's Agent commands
QuickPrompts == {<<"Give me my morning briefing">>}
SessionIds == {"s1", "s2"}
ReplyAgents == {"NEXUS", "ATLAS"}

\* the payload of sendChat(msg, sid) for the k-th send
ChatReplies(k, sid) ==
  {[response |-> <<"reply", ToString(k)>>, agent |-> a, session_id |-> s] :
     a \in ReplyAgents, s \in (IF sid = null THEN SessionIds ELSE {sid})}

\* messages after addMessage(m)
addMessage(msgs, m, id) ==
  Append(msgs, [id |-> id, role |-> m.role, content |-> m.content,
                agent |-> m.agent, isStreaming |-> m.isStreaming])

\* messages after updateLastMessage(content)
updateLastMessage(msgs, content) ==
  IF Len(msgs) > 0
  THEN [msgs EXCEPT ![Len(msgs)] =
          [@ EXCEPT !.content = content, !.isStreaming = FALSE]]
  ELSE msgs

UserMessage(msg) ==
  [role |-> "user", content |-> msg, agent |-> "NEXUS", isStreaming |-> FALSE]
Placeholder ==
  [role |-> "assistant", content |-> <<>>, agent |-> "NEXUS", isStreaming |-> TRUE]

\* the two addMessage calls and setLoading(true) that open a send
OpenSend(msg) ==
  /\ messages' = addMessage(addMessage(messages, UserMessage(msg), uuid + 1),
                            Placeholder, uuid + 2)
  /\ isLoading' = TRUE

\* a plausible slip: the store's current session id is tested, not the one
\* the handler was rendered with
SessionAfterReadsStore(captured, current, issued) ==
  IF current = null THEN issued ELSE current

\* if (!sessionId) setSessionId(data.session_id), sessionId being the value
\* the handler's render captured
SessionAfter(captured, current, issued) ==
  IF captured = null THEN issued ELSE current

\* ChatInput.submit up to `await sendChat`
submit(text) ==
  LET msg == Trim(text) IN
  /\ currentView = "chat"
  /\ msg # <<>> /\ ~isLoading
  /\ Len(sends) < MaxSends
  /\ OpenSend(msg)
  /\ sends' = Append(sends, [kind |-> "chat", stage |-> "inflight",
                             sid |-> sessionId, msg |-> msg,
                             user |-> uuid + 1, ph |-> uuid + 2,
                             len0 |-> Len(messages), issued |-> null])
  /\ uuid' = uuid + 2
  /\ UNCHANGED healthVars
  /\ op' = [name |-> "submit", id |-> Len(sends) + 1]
  /\ UNCHANGED <<botVars, boardVars>>
  /\ UNCHANGED <<sessionId, currentView, commandBarOpen, listeners, clears, notifVars>>

\* ChatInput.submit after sendChat resolved with data
submitResolved(k, data) ==
  /\ sends[k].kind = "chat" /\ sends[k].stage = "inflight"
  /\ sessionId' = SessionAfter(sends[k].sid, sessionId, data.session_id)
  /\ messages' = updateLastMessage(messages, data.response)
  /\ IF data.agent # "NEXUS"
     THEN /\ PushEffect([type |-> "agent", title |-> "responded"], uuid + 1)
          /\ uuid' = uuid + 1
     ELSE UNCHANGED <<notifVars, uuid>>
  /\ isLoading' = FALSE
  /\ sends' = [sends EXCEPT ![k].stage = "resolved",
                            ![k].issued = data.session_id]
  /\ UNCHANGED healthVars
  /\ op' = [name |-> "submitResolved", id |-> k]
  /\ UNCHANGED <<botVars, boardVars>>
  /\ UNCHANGED <<currentView, commandBarOpen, listeners, clears>>

\* a plausible slip: setLoading(false) sits in the try block, not in finally
submitRejectedKeepsBusy(k) ==
  /\ sends[k].kind = "chat" /\ sends[k].stage = "inflight"
  /\ messages' = updateLastMessage(messages, OfflineNoticeChat)
  /\ sends' = [sends EXCEPT ![k].stage = "rejected"]
  /\ UNCHANGED healthVars
  /\ op' = [name |-> "submitRejected", id |-> k]
  /\ UNCHANGED <<botVars, boardVars>>
  /\ UNCHANGED <<sessionId, isLoading, currentView, commandBarOpen, listeners, clears,
                 notifVars, uuid>>

\* ChatInput.submit after sendChat threw
submitRejected(k) ==
  /\ sends[k].kind = "chat" /\ sends[k].stage = "inflight"
  /\ messages' = updateLastMessage(messages, OfflineNoticeChat)
  /\ isLoading' = FALSE
  /\ sends' = [sends EXCEPT ![k].stage = "rejected"]
  /\ UNCHANGED healthVars
  /\ op' = [name |-> "submitRejected", id |-> k]
  /\ UNCHANGED <<botVars, boardVars>>
  /\ UNCHANGED <<sessionId, currentView, commandBarOpen, listeners, clears, notifVars, uuid>>

\* CommandBar quickAsk up to setTimeout
quickAskAs(o, msg) ==
  /\ commandBarOpen
  /\ Len(sends) < MaxSends
  /\ commandBarOpen' = ~commandBarOpen
  /\ listeners' = Resubscribed(listeners)
  /\ ShowView("chat")
  /\ sends' = Append(sends, [kind |-> "quick", stage |-> "timer",
                             sid |-> sessionId, msg |-> msg,
                             user |-> 0, ph |-> 0, len0 |-> 0,
                             issued |-> null])
  /\ UNCHANGED healthPolling
  /\ op' = o
  /\ UNCHANGED <<messages, sessionId, isLoading, clears, notifVars, uuid>>

\* an Agent command clicked in the palette's list
quickAsk(msg) == quickAskAs([name |-> "quickAsk", id |-> Len(sends) + 1], msg)

\* the setTimeout callback of quickAsk up to `await sendChat`
quickAskTimeout(k) ==
  /\ sends[k].kind = "quick" /\ sends[k].stage = "timer"
  /\ OpenSend(sends[k].msg)
  /\ sends' = [sends EXCEPT ![k].stage = "inflight", ![k].user = uuid + 1,
                            ![k].ph = uuid + 2, ![k].len0 = Len(messages)]
  /\ uuid' = uuid + 2
  /\ UNCHANGED healthVars
  /\ op' = [name |-> "quickAskTimeout", id |-> k]
  /\ UNCHANGED <<botVars, boardVars>>
  /\ UNCHANGED <<sessionId, currentView, commandBarOpen, listeners, clears, notifVars>>

\* the setTimeout callback of quickAsk after sendChat resolved with data
quickAskResolved(k, data) ==
  /\ sends[k].kind = "quick" /\ sends[k].stage = "inflight"
  /\ sessionId' = SessionAfter(sends[k].sid, sessionId, data.session_id)
  /\ messages' = updateLastMessage(messages, data.response)
  /\ isLoading' = FALSE
  /\ sends' = [sends EXCEPT ![k].stage = "resolved",
                            ![k].issued = data.session_id]
  /\ UNCHANGED healthVars
  /\ op' = [name |-> "quickAskResolved", id |-> k]
  /\ UNCHANGED <<botVars, boardVars>>
  /\ UNCHANGED <<currentView, commandBarOpen, listeners, clears, notifVars, uuid>>

\* the setTimeout callback of quickAsk after sendChat threw
quickAskRejected(k) ==
  /\ sends[k].kind = "quick" /\ sends[k].stage = "inflight"
  /\ messages' = updateLastMessage(messages, OfflineNoticeQuick)
  /\ isLoading' = FALSE
  /\ sends' = [sends EXCEPT ![k].stage = "rejected"]
  /\ UNCHANGED healthVars
  /\ op' = [name |-> "quickAskRejected", id |-> k]
  /\ UNCHANGED <<botVars, boardVars>>
  /\ UNCHANGED <<sessionId, currentView, commandBarOpen, listeners, clears, notifVars, uuid>>

\* a plausible slip: clearing the conversation also drops the busy flag
clearChatResetsBusy ==
  /\ clears < MaxClears
  /\ messages' = <<>>
  /\ sessionId' = null
  /\ isLoading' = FALSE
  /\ clears' = clears + 1
  /\ UNCHANGED healthVars
  /\ op' = [name |-> "clearChat", id |-> 0]
  /\ UNCHANGED <<botVars, boardVars>>
  /\ UNCHANGED <<currentView, commandBarOpen, listeners, sends, notifVars, uuid>>

\* the store's clearChat: set({ messages: [], sessionId: null })
clearChat ==
  /\ clears < MaxClears
  /\ messages' = <<>>
  /\ sessionId' = null
  /\ clears' = clears + 1
  /\ UNCHANGED healthVars
  /\ op' = [name |-> "clearChat", id |-> 0]
  /\ UNCHANGED <<botVars, boardVars>>
  /\ UNCHANGED <<isLoading, currentView, commandBarOpen, listeners, sends, notifVars,
                 uuid>>

\* the "Clear Chat History" command: clearChat, toggleCommandBar, pushNotification
clearChatCommandAs(o) ==
  /\ commandBarOpen
  /\ clears < MaxClears
  /\ messages' = <<>>
  /\ sessionId' = null
  /\ commandBarOpen' = ~commandBarOpen
  /\ listeners' = Resubscribed(listeners)
  /\ PushEffect([type |-> "info", title |-> "Chat Cleared"], uuid + 1)
  /\ uuid' = uuid + 1
  /\ clears' = clears + 1
  /\ UNCHANGED healthVars
  /\ op' = o
  /\ UNCHANGED <<botVars, boardVars>>
  /\ UNCHANGED <<isLoading, currentView, sends>>

\* the "Clear Chat History" command clicked in the palette's list
clearChatCommand == clearChatCommandAs([name |-> "clearChatCommand", id |-> 0])

\* a Navigate command: setView(v); toggleCommandBar()
navCommandAs(o, v) ==
  /\ commandBarOpen
  /\ ShowView(v)
  /\ commandBarOpen' = ~commandBarOpen
  /\ listeners' = Resubscribed(listeners)
  /\ UNCHANGED healthPolling
  /\ op' = o
  /\ UNCHANGED <<messages, sessionId, isLoading, sends, clears, notifVars,
                 uuid>>

\* String.prototype.toLowerCase, letter by letter
LowerOf ==
  [ch \in {"A", "B", "C", "D", "E", "F", "G", "H", "I", "J", "K", "L", "M",
            "N", "O", "P", "Q", "R", "S", "T", "U", "V", "W", "X", "Y", "Z"} |->
     CASE ch = "A" -> "a" [] ch = "B" -> "b" [] ch = "C" -> "c"
       [] ch = "D" -> "d" [] ch = "E" -> "e" [] ch = "F" -> "f"
       [] ch = "G" -> "g" [] ch = "H" -> "h" [] ch = "I" -> "i"
       [] ch = "J" -> "j" [] ch = "K" -> "k" [] ch = "L" -> "l"
       [] ch = "M" -> "m" [] ch = "N" -> "n" [] ch = "O" -> "o"
       [] ch = "P" -> "p" [] ch = "Q" -> "q" [] ch = "R" -> "r"
       [] ch = "S" -> "s" [] ch = "T" -> "t" [] ch = "U" -> "u"
       [] ch = "V" -> "v" [] ch = "W" -> "w" [] ch = "X" -> "x"
       [] ch = "Y" -> "y" [] ch = "Z" -> "z"]
ToLowerCase(t) ==
  [i \in 1..Len(t) |-> IF t[i] \in DOMAIN LowerOf THEN LowerOf[t[i]] ELSE t[i]]

\* String.prototype.includes
Includes(t, q) ==
  \E i \in 0..(Len(t) - Len(q)) : SubSeq(t, i + 1, i + Len(q)) = q

\* COMMANDS: the fourteen registered commands in registry order, labels and
\* keywords letter by letter; kind and arg stand for the action (a Navigate
\* command's view, an Agent command's prompt, the System command)
COMMANDS ==
  <<[id |-> "chat", kind |-> "nav",
     arg |-> "chat",
     label |-> <<"O","p","e","n"," ","C","h","a","t">>,
     keywords |-> <<<<"c","h","a","t">>, <<"t","a","l","k">>, <<"m","e","s",
                  "s","a","g","e">>>>],
    [id |-> "projects", kind |-> "nav",
     arg |-> "projects",
     label |-> <<"O","p","e","n"," ","P","r","o","j","e","c","t","s">>,
     keywords |-> <<<<"p","r","o","j","e","c","t">>, <<"k","a","n","b","a",
                  "n">>, <<"t","a","s","k">>>>],
    [id |-> "research", kind |-> "nav",
     arg |-> "research",
     label |-> <<"O","p","e","n"," ","R","e","s","e","a","r","c","h">>,
     keywords |-> <<<<"r","e","s","e","a","r","c","h">>, <<"k","n","o","w",
                  "l","e","d","g","e">>, <<"o","r","a","c","l","e">>>>],
    [id |-> "career", kind |-> "nav",
     arg |-> "career",
     label |-> <<"O","p","e","n"," ","C","a","r","e","e","r">>,
     keywords |-> <<<<"c","a","r","e","e","r">>, <<"c","o","m","p","a","s",
                  "s">>, <<"j","o","b">>>>],
    [id |-> "code", kind |-> "nav",
     arg |-> "code",
     label |-> <<"O","p","e","n"," ","C","o","d","e">>,
     keywords |-> <<<<"c","o","d","e">>, <<"f","o","r","g","e">>, <<"d","e",
                  "b","u","g">>>>],
    [id |-> "telegram", kind |-> "nav",
     arg |-> "telegram",
     label |-> <<"O","p","e","n"," ","T","e","l","e","g","r","a","m">>,
     keywords |-> <<<<"t","e","l","e","g","r","a","m">>, <<"b","o","t">>,
                   <<"m","o","b","i","l","e">>>>],
    [id |-> "settings", kind |-> "nav",
     arg |-> "settings",
     label |-> <<"O","p","e","n"," ","S","e","t","t","i","n","g","s">>,
     keywords |-> <<<<"s","e","t","t","i","n","g","s">>, <<"c","o","n","f",
                  "i","g">>>>],
    [id |-> "brief", kind |-> "quick",
     arg |-> "Give me my morning briefing",
     label |-> <<"M","o","r","n","i","n","g"," ","B","r","i","e","f","i","n",
               "g"," ","(","A","T","L","A","S",")">>,
     keywords |-> <<<<"b","r","i","e","f">>, <<"m","o","r","n","i","n","g">>,
                   <<"a","t","l","a","s">>>>],
    [id |-> "focus", kind |-> "quick",
     arg |-> "What single thing should I focus on right now?",
     label |-> <<"W","h","a","t"," ","t","o"," ","f","o","c","u","s"," ","o",
               "n"," ","n","o","w">>,
     keywords |-> <<<<"f","o","c","u","s">>, <<"p","r","i","o","r","i","t",
                  "y">>, <<"n","o","w">>>>],
    [id |-> "skill-gap", kind |-> "quick",
     arg |-> "Analyze my skill gap for Senior ML Engineer",
     label |-> <<"S","k","i","l","l"," ","G","a","p"," ","A","n","a","l","y",
               "s","i","s">>,
     keywords |-> <<<<"s","k","i","l","l">>, <<"g","a","p">>, <<"c","a","r",
                  "e","e","r">>>>],
    [id |-> "github-sync", kind |-> "quick",
     arg |-> "sync github and show open issues",
     label |-> <<"S","y","n","c"," ","G","i","t","H","u","b"," ","I","s","s",
               "u","e","s">>,
     keywords |-> <<<<"g","i","t","h","u","b">>, <<"s","y","n","c">>, <<"i",
                  "s","s","u","e","s">>>>],
    [id |-> "review", kind |-> "quick",
     arg |-> "I need a code review",
     label |-> <<"C","o","d","e"," ","R","e","v","i","e","w"," ","M","o","d",
               "e">>,
     keywords |-> <<<<"r","e","v","i","e","w">>, <<"c","o","d","e">>, <<"f",
                  "o","r","g","e">>>>],
    [id |-> "research-q", kind |-> "quick",
     arg |-> "Search my knowledge base for:",
     label |-> <<"S","e","a","r","c","h"," ","K","n","o","w","l","e","d","g",
               "e"," ","B","a","s","e">>,
     keywords |-> <<<<"s","e","a","r","c","h">>, <<"k","n","o","w","l","e",
                  "d","g","e">>, <<"o","r","a","c","l","e">>>>],
    [id |-> "clear-chat", kind |-> "clear",
     arg |-> "",
     label |-> <<"C","l","e","a","r"," ","C","h","a","t"," ","H","i","s","t",
               "o","r","y">>,
     keywords |-> <<<<"c","l","e","a","r">>, <<"r","e","s","e","t">>, <<"h",
                  "i","s","t","o","r","y">>>>]>>

\* a plausible slip: the query is compared as typed, not lowercased
MatchesAsTyped(c, query) ==
  \/ Includes(ToLowerCase(c.label), query)
  \/ \E j \in 1..Len(c.keywords) : Includes(c.keywords[j], query)

\* c.label.toLowerCase().includes(query.toLowerCase()) ||
\* c.keywords.some((k) => k.includes(query.toLowerCase()))
Matches(c, query) ==
  \/ Includes(ToLowerCase(c.label), ToLowerCase(query))
  \/ \E j \in 1..Len(c.keywords) :
       Includes(c.keywords[j], ToLowerCase(query))

\* const filtered = query.trim() ? COMMANDS.filter(...) : COMMANDS
Filtered(query) ==
  LET matches(c) == Matches(c, query)
  IN  IF Trim(query) # <<>> THEN SelectSeq(COMMANDS, matches) ELSE COMMANDS

\* what is typed into the palette's input: every text of at most MaxQueryLen
\* of these letters ("x" is in no label and no keyword), and a few words
QueryLetters == {"B", "f", "y", "x", " "}
TypedWords ==
  {<<"R","e","s","e","t">>, <<"(","A","T","L">>, <<"g","a","p">>}
Queries == UNION {[1..n -> QueryLetters] : n \in 0..MaxQueryLen} \cup TypedWords

\* the list shown for each of these queries, computed once
FilteredTable == {<<query, Filtered(query)>> : query \in Queries}
FilteredOf(query) == (CHOOSE row \in FilteredTable : row[1] = query)[2]

\* the action of a command, run for the handler step o
RunCommand(c, o) ==
  CASE c.kind = "nav" -> navCommandAs(o, c.arg)
    [] c.kind = "quick" -> quickAskAs(o, <<c.arg>>)
    [] c.kind = "clear" -> clearChatCommandAs(o)

\* the palette input's onKeyDown with Enter, query being what was typed:
\* if (e.key === "Enter" && filtered.length > 0) filtered[0].action()
pressEnter(query) ==
  LET shown == FilteredOf(query)
      o == [name |-> "pressEnter", id |-> 0, query |-> query,
            shown |-> [i \in 1..Len(shown) |-> shown[i].id]]
  IN  /\ commandBarOpen
      /\ IF Len(shown) > 0
         THEN RunCommand(shown[1], o)
         ELSE /\ op' = o
              /\ UNCHANGED healthVars
              /\ UNCHANGED <<chatVars, notifVars, botVars, boardVars, uuid>>

\* the sidebar's command-bar button and the palette's backdrop
toggleCommandBar ==
  /\ commandBarOpen' = ~commandBarOpen
  /\ listeners' = Resubscribed(listeners)
  /\ UNCHANGED healthVars
  /\ op' = [name |-> "toggleCommandBar", id |-> 0]
  /\ UNCHANGED <<botVars, boardVars>>
  /\ UNCHANGED <<messages, sessionId, isLoading, currentView, sends, clears,
                 notifVars, uuid>>

\* keys of the keydown events, each pressed with or without Ctrl/Cmd
Keys == {"k", "Escape", "1", "2", "6"}

\* commandBarOpen after CommandBar's window keydown handler; `shown` is the
\* commandBarOpen of the render that registered the handler
BarKeydown(open, shown, key, mod) ==
  LET toggled == IF mod /\ key = "k" THEN ~open ELSE open
  IN  IF key = "Escape" /\ shown THEN ~toggled ELSE toggled

\* commandBarOpen after App's window keydown handler
AppKeydown(open, key, mod) ==
  IF mod /\ key = "k" THEN ~open ELSE open

\* currentView after App's window keydown handler
AppKeydownView(view, key, mod) ==
  IF ~mod THEN view
  ELSE CASE key = "1" -> "chat"
         [] key = "2" -> "projects"
         [] key = "3" -> "research"
         [] key = "4" -> "career"
         [] key = "5" -> "code"
         [] key = "6" -> "telegram"
         [] OTHER -> view

\* commandBarOpen after the listeners of ls from position i on have handled
\* one keydown event; `shown` is commandBarOpen at the start of the event
\* (what the handler CommandBar registered closes over), `skip` tells whether
\* a listener that an earlier listener's re-render has removed is skipped
RECURSIVE Dispatch(_, _, _, _, _, _, _)
Dispatch(ls, i, open, shown, key, mod, skip) ==
  IF i > Len(ls) THEN open
  ELSE IF ls[i] = "App"
       THEN Dispatch(ls, i + 1, AppKeydown(open, key, mod), shown, key, mod,
                     skip)
       ELSE IF skip /\ open # shown
            THEN Dispatch(ls, i + 1, open, shown, key, mod, skip)
            ELSE Dispatch(ls, i + 1, BarKeydown(open, shown, key, mod), shown,
                          key, mod, skip)

\* one keydown event on window, dispatched to the listeners in registration
\* order. A handler that toggles commandBarOpen re-renders CommandBar, whose
\* effect then removes its listener and adds a new one. Whether that
\* happens before the event reaches the removed listener depends on the
\* React root the build mounts (main.tsx and package.json are not part of
\* the sources): a root that renders and runs effects between two listeners
\* skips it, a root that defers the effects lets it run
keydown(key, mod) ==
  /\ \E skip \in BOOLEAN :
       commandBarOpen' =
         Dispatch(listeners, 1, commandBarOpen, commandBarOpen, key, mod, skip)
  /\ listeners' = IF (mod /\ key = "k") \/ commandBarOpen' # commandBarOpen
                  THEN Resubscribed(listeners) ELSE listeners
  /\ ShowView(AppKeydownView(currentView, key, mod))
  /\ UNCHANGED healthPolling
  /\ op' = [name |-> IF mod /\ key = "k" THEN "ctrlK" ELSE "keydown",
            id |-> 0]
  /\ UNCHANGED <<messages, sessionId, isLoading, sends, clears, notifVars,
                 uuid>>

\* the sidebar's navigation buttons
NavViews == {"chat", "projects", "telegram", "settings"}
setView(v) ==
  /\ ShowView(v)
  /\ UNCHANGED healthPolling
  /\ op' = [name |-> "setView", id |-> 0]
  /\ UNCHANGED <<messages, sessionId, isLoading, commandBarOpen, listeners, sends, clears,
                 notifVars, uuid>>

\* ----------------------------------------------------------------- Telegram
\* the texts an inbound update may carry ("" when it carries none)
UpdateTexts == {"", "yo"}

\* Bot API getUpdates(offset): calling with an offset confirms (forgets) the
\* updates below it; the rest is what the server holds afterwards
HeldAfter(held, offset) ==
  LET keep(u) == u.update_id >= offset IN SelectSeq(held, keep)

\* data.result of getUpdates?offset=..&limit=10
GetUpdates(held, offset) == Slice(HeldAfter(held, offset), 0, UpdatesLimit)

\* a plausible slip: offset = u.update_id + 1, without Math.max
OffsetAfterLast(offset, result) ==
  IF result = <<>> THEN offset ELSE result[Len(result)].update_id + 1

\* `offset` after data.result.map(...): offset = Math.max(offset, u.update_id + 1)
RECURSIVE OffsetAfter(_, _)
OffsetAfter(offset, result) ==
  IF result = <<>> THEN offset
  ELSE OffsetAfter(Max(offset, Head(result).update_id + 1), Tail(result))

\* newMsgs: data.result.map(...).filter((m) => m.text)
NewMsgs(result) ==
  LET mapped == [i \in 1..Len(result) |->
                   [id |-> result[i].update_id, text |-> result[i].text,
                    isBot |-> FALSE]]
      hasText(m) == m.text # ""
  IN  SelectSeq(mapped, hasText)

\* notifications after newMsgs.forEach(pushNotification), ids from id0 + 1 on
RECURSIVE PushedEach(_, _, _)
PushedEach(q, msgs, id0) ==
  IF msgs = <<>> THEN q
  ELSE PushedEach(Pushed(q, [type |-> "info", title |-> "Telegram"], id0 + 1),
                  Tail(msgs), id0 + 1)

\* startPolling run by the mounted TelegramView: clearInterval of its own
\* ref, setPollActive(true), let offset = 0, setInterval
startPolling ==
  /\ offsets' = Append(offsets, 0)
  /\ pollRef' = Len(offsets) + 1
  /\ intervals' = (intervals \ {pollRef}) \cup {Len(offsets) + 1}

\* startPolling run by a TelegramView that was unmounted while its getMe was
\* in flight: the cleanup has run already, so nothing clears the interval it
\* sets; the mounted view's ref is another object
startPollingUnmounted ==
  /\ offsets' = Append(offsets, 0)
  /\ intervals' = intervals \cup {Len(offsets) + 1}
  /\ UNCHANGED pollRef

\* the values typed into the BOT TOKEN and YOUR CHAT ID inputs
SettingKeys == {"telegramToken", "telegramChatId"}
SettingValues == {"", "x"}

\* updateSettings({ [key]: value }) from the inputs of the Telegram view or
\* of the settings view: set((st) => ({ settings: { ...st.settings, ...s } }))
updateSettings(key, value) ==
  /\ \/ currentView = "telegram"
     \/ currentView = "settings" /\ tab = "integrations"
  /\ settings' = [settings EXCEPT ![key] = value]
  /\ UNCHANGED healthVars
  /\ op' = [name |-> "updateSettings", id |-> 0]
  /\ UNCHANGED <<telegramConnected, tgMessages, isConnecting, pollRef, offsets,
                 intervals, polls, connects, tgSends, srvUpdates, srvCount,
                 notifVars, uuid, chatVars, boardVars>>

\* connectBot up to `await fetch(.../getMe)`; the button is rendered by the
\* Telegram view and disabled while connecting or without a token
connectBot ==
  /\ currentView = "telegram"
  /\ settings.telegramToken # ""
  /\ ~isConnecting
  /\ Len(connects) < MaxConnects
  /\ isConnecting' = TRUE
  /\ connects' = Append(connects, [stage |-> "inflight", mounted |-> TRUE])
  /\ UNCHANGED healthVars
  /\ op' = [name |-> "connectBot", id |-> Len(connects) + 1]
  /\ UNCHANGED <<telegramConnected, tgMessages, pollRef, offsets, intervals,
                 polls, tgSends, settings, srvUpdates, srvCount, notifVars,
                 uuid, chatVars, boardVars>>

\* connectBot after getMe answered: data.ok or not.  The store is written
\* whether or not the view is still mounted; setIsConnecting reaches only a
\* mounted view.
connectBotResolved(c, ok) ==
  /\ connects[c].stage = "inflight"
  /\ IF ok
     THEN /\ telegramConnected' = TRUE
          /\ PushEffect([type |-> "success", title |-> "Telegram Connected"], uuid + 1)
          /\ IF connects[c].mounted THEN startPolling ELSE startPollingUnmounted
     ELSE /\ PushEffect([type |-> "error", title |-> "Telegram Error"], uuid + 1)
          /\ UNCHANGED <<telegramConnected, offsets, pollRef, intervals>>
  /\ uuid' = uuid + 1
  /\ isConnecting' = IF connects[c].mounted THEN FALSE ELSE isConnecting
  /\ connects' = [connects EXCEPT ![c].stage = "done"]
  /\ UNCHANGED healthVars
  /\ op' = [name |-> "connectBotResolved", id |-> c]
  /\ UNCHANGED <<tgMessages, polls, tgSends, settings, srvUpdates, srvCount,
                 chatVars, boardVars>>

\* connectBot after fetch or res.json() threw
connectBotRejected(c) ==
  /\ connects[c].stage = "inflight"
  /\ PushEffect([type |-> "error", title |-> "Telegram Error"], uuid + 1)
  /\ uuid' = uuid + 1
  /\ isConnecting' = IF connects[c].mounted THEN FALSE ELSE isConnecting
  /\ connects' = [connects EXCEPT ![c].stage = "done"]
  /\ UNCHANGED healthVars
  /\ op' = [name |-> "connectBotRejected", id |-> c]
  /\ UNCHANGED <<telegramConnected, tgMessages, pollRef, offsets, intervals,
                 polls, tgSends, settings, srvUpdates, srvCount, chatVars,
                 boardVars>>

\* the callback of interval g up to `await fetch(url)`: the url holds the
\* offset; the request remembers whether its view is mounted
pollTick(g) ==
  /\ g \in intervals
  /\ Len(polls) < MaxPolls
  /\ polls' = Append(polls, [gen |-> g, offset |-> offsets[g],
                             stage |-> "inflight", result |-> <<>>,
                             mounted |-> g = pollRef])
  /\ UNCHANGED healthVars
  /\ op' = [name |-> "pollTick", id |-> Len(polls) + 1]
  /\ UNCHANGED <<telegramConnected, tgMessages, isConnecting, pollRef, offsets,
                 intervals, connects, tgSends, settings, srvUpdates, srvCount,
                 notifVars, uuid, chatVars, boardVars>>

\* the interval callback after getUpdates answered ok: setMessages reaches
\* only a mounted view, pushNotification the store
pollResolved(p) ==
  LET result == GetUpdates(srvUpdates, polls[p].offset) IN
  /\ polls[p].stage = "inflight"
  /\ srvUpdates' = HeldAfter(srvUpdates, polls[p].offset)
  /\ offsets' = [offsets EXCEPT ![polls[p].gen] = OffsetAfter(@, result)]
  /\ tgMessages' = IF polls[p].mounted THEN tgMessages \o NewMsgs(result)
                   ELSE tgMessages
  /\ notifications' = PushedEach(notifications, NewMsgs(result), uuid)
  /\ unreadCount' = unreadCount + Len(NewMsgs(result))
  /\ exiting' = ToastsAfter(exiting, notifications')
  /\ uuid' = uuid + Len(NewMsgs(result))
  /\ polls' = [polls EXCEPT ![p].stage = "resolved", ![p].result = result]
  /\ UNCHANGED healthVars
  /\ op' = [name |-> "pollResolved", id |-> p]
  /\ UNCHANGED <<telegramConnected, isConnecting, pollRef, intervals, connects,
                 tgSends, settings, srvCount, chatVars, boardVars>>

\* the interval callback after fetch threw or data.ok was false: silent
pollRejected(p) ==
  /\ polls[p].stage = "inflight"
  /\ polls' = [polls EXCEPT ![p].stage = "rejected"]
  /\ UNCHANGED healthVars
  /\ op' = [name |-> "pollRejected", id |-> p]
  /\ UNCHANGED <<telegramConnected, tgMessages, isConnecting, pollRef, offsets,
                 intervals, connects, tgSends, settings, srvUpdates, srvCount,
                 notifVars, uuid, chatVars, boardVars>>

\* somebody writes to the bot: the server stores update srvCount + 1
updateArrives(text) ==
  /\ srvCount < MaxUpdates
  /\ srvUpdates' = Append(srvUpdates, [update_id |-> srvCount + 1, text |-> text])
  /\ srvCount' = srvCount + 1
  /\ UNCHANGED healthVars
  /\ op' = [name |-> "updateArrives", id |-> srvCount + 1]
  /\ UNCHANGED <<telegramConnected, tgMessages, isConnecting, pollRef, offsets,
                 intervals, polls, connects, tgSends, settings, notifVars,
                 uuid, chatVars, boardVars>>

\* the texts of the Quick Send buttons
BotCommands == {"/brief"}
\* Date.now() at two moments, both far above any update id
Timestamps == {1001, 1002}

\* sendMsg(text) from a Quick Send button (enabled when connected and a chat
\* id is set) up to `await sendTelegramMessage`; now is Date.now(), which
\* does not run backwards
sendMsg(text, now) ==
  /\ currentView = "telegram"
  /\ telegramConnected /\ settings.telegramChatId # ""
  /\ settings.telegramToken # ""
  /\ Len(tgSends) < MaxTgSends
  /\ \A i \in 1..Len(tgMessages) : tgMessages[i].isBot => tgMessages[i].id <= now
  /\ tgMessages' = Append(tgMessages, [id |-> now, text |-> text, isBot |-> TRUE])
  /\ tgSends' = Append(tgSends, "inflight")
  /\ UNCHANGED healthVars
  /\ op' = [name |-> "sendMsg", id |-> Len(tgSends) + 1]
  /\ UNCHANGED <<telegramConnected, isConnecting, pollRef, offsets, intervals,
                 polls, connects, settings, srvUpdates, srvCount, notifVars,
                 uuid, chatVars, boardVars>>

\* sendMsg after sendTelegramMessage returned
sendMsgResolved(k) ==
  /\ tgSends[k] = "inflight"
  /\ tgSends' = [tgSends EXCEPT ![k] = "done"]
  /\ UNCHANGED healthVars
  /\ op' = [name |-> "sendMsgResolved", id |-> k]
  /\ UNCHANGED <<telegramConnected, tgMessages, isConnecting, pollRef, offsets,
                 intervals, polls, connects, settings, srvUpdates, srvCount,
                 notifVars, uuid, chatVars, boardVars>>

\* sendMsg after sendTelegramMessage threw
sendMsgRejected(k) ==
  /\ tgSends[k] = "inflight"
  /\ tgSends' = [tgSends EXCEPT ![k] = "done"]
  /\ PushEffect([type |-> "error", title |-> "Send Failed"], uuid + 1)
  /\ uuid' = uuid + 1
  /\ UNCHANGED healthVars
  /\ op' = [name |-> "sendMsgRejected", id |-> k]
  /\ UNCHANGED <<telegramConnected, tgMessages, isConnecting, pollRef, offsets,
                 intervals, polls, connects, settings, srvUpdates, srvCount,
                 chatVars, boardVars>>

\* ------------------------------------------------------------ project board
\* what the backend may store when the client starts
SeedProjects ==
  <<[_id |-> "p1", name |-> <<"A", " ">>], [_id |-> "p2", name |-> <<"A">>]>>
SeedTasks ==
  <<[id |-> "t1", _id |-> undefined, project_id |-> "p1", status |-> "todo"],
    [id |-> undefined, _id |-> "t2", project_id |-> "p1", status |-> "todo"],
    [id |-> "t3", _id |-> "t3", project_id |-> "p2", status |-> "done"]>>

\* names typed into the "new project" dialog
NewProjectNames == {<<"B">>, <<" ">>}
\* texts typed into the delete dialog's confirmation field
ConfirmInputs == {<<"A">>, <<"A", " ">>}

\* ProjectsView.tsx:72-73 and :52, the component state of a fresh instance
InitBoardView ==
  /\ mounts = 0
  /\ loading = FALSE
  /\ showDeleteProject = FALSE
  /\ deleteConfirmationName = <<>>
  /\ dragging = null
  /\ editingTask = <<>>

\* projects.find((p) => p._id === id): the list of matches, first one first
FindProject(ps, id) == LET keep(p) == p._id = id IN SelectSeq(ps, keep)

\* projects.filter((p) => p._id !== id)
WithoutProject(ps, id) == LET keep(p) == p._id # id IN SelectSeq(ps, keep)

\* useEffect(() => { if (activeProjectId) loadTasks(activeProjectId) },
\* [activeProjectId]): the requests it sends when a handler leaves the store
\* with newActive while the view is mounted
EffectCalls(newActive) ==
  IF currentView = "projects" /\ newActive # activeProjectId /\ newActive # null
  THEN <<LoadTasksCall(newActive)>>
  ELSE <<>>

\* a plausible slip: the first project is selected whatever was active
ActiveAfterLoadAlwaysFirst(captured, current, data) ==
  IF Len(data) > 0 THEN data[1]._id ELSE current

\* activeProjectId after loadProjects received data; `captured` is the
\* activeProjectId of the render that created the handler
ActiveAfterLoad(captured, current, data) ==
  IF Len(data) > 0 /\ captured = null THEN data[1]._id ELSE current

\* a plausible slip: both sides are trimmed before they are compared
NameMatchesTrimmed(typed, name) == Trim(typed) = Trim(name)

\* deleteConfirmationName !== projectToDelete.name, negated
NameMatches(typed, name) == typed = name

\* the rest of the chat state, which the board leaves alone
chatRest == <<messages, sessionId, isLoading, commandBarOpen, listeners, sends, clears>>

\* Sidebar setView("projects"): ProjectsView mounts and its two effects run
openProjects ==
  /\ currentView # "projects"
  /\ ShowView("projects")
  /\ UNCHANGED healthPolling
  /\ op' = [name |-> "openProjects", id |-> Len(calls) + 1]
  /\ UNCHANGED <<notifVars, uuid, chatRest>>

\* Sidebar setView("chat"): ProjectsView unmounts, its component state is gone
leaveProjects ==
  /\ currentView = "projects"
  /\ ShowView("chat")
  /\ UNCHANGED healthPolling
  /\ op' = [name |-> "leaveProjects", id |-> 0]
  /\ UNCHANGED <<notifVars, uuid, chatRest>>

\* setLoading(false) of the instance that sent call c, if it is still mounted
LoadingAfter(c) ==
  IF currentView = "projects" /\ calls[c].mount = mounts THEN FALSE ELSE loading

\* loadProjects after getProjects resolved
loadProjectsResolved(c) ==
  LET call == calls[c]
      newActive == ActiveAfterLoad(call.active, activeProjectId, call.data)
  IN
  /\ call.type = "loadProjects" /\ call.stage = "inflight"
  /\ projects' = call.data
  /\ activeProjectId' = newActive
  /\ loading' = LoadingAfter(c)
  /\ calls' = [calls EXCEPT ![c] = Finished(calls[c])] \o EffectCalls(newActive)
  /\ UNCHANGED healthVars
  /\ op' = [name |-> "loadProjectsResolved", id |-> c]
  /\ UNCHANGED <<tasks, mounts, editingTask, showDeleteProject, deleteConfirmationName, dragging,
                 boardRemote, notifVars, uuid, currentView, chatRest, botVars>>

\* loadProjects after getProjects threw
loadProjectsRejected(c) ==
  /\ calls[c].type = "loadProjects" /\ calls[c].stage = "inflight"
  /\ PushEffect([type |-> "error", title |-> "Projects Error"], uuid + 1)
  /\ uuid' = uuid + 1
  /\ loading' = LoadingAfter(c)
  /\ calls' = [calls EXCEPT ![c] = Finished(calls[c])]
  /\ UNCHANGED healthVars
  /\ op' = [name |-> "loadProjectsRejected", id |-> c]
  /\ UNCHANGED <<boardStore, mounts, editingTask, showDeleteProject, deleteConfirmationName, dragging,
                 boardRemote, currentView, chatRest, botVars>>

\* loadTasks after getTasks resolved
loadTasksResolved(c) ==
  /\ calls[c].type = "loadTasks" /\ calls[c].stage = "inflight"
  /\ tasks' = calls[c].data
  /\ calls' = [calls EXCEPT ![c] = Finished(calls[c])]
  /\ UNCHANGED healthVars
  /\ op' = [name |-> "loadTasksResolved", id |-> c]
  /\ UNCHANGED <<projects, activeProjectId, boardView, boardRemote, notifVars,
                 uuid, currentView, chatRest, botVars>>

\* loadTasks after getTasks threw
loadTasksRejected(c) ==
  /\ calls[c].type = "loadTasks" /\ calls[c].stage = "inflight"
  /\ PushEffect([type |-> "error", title |-> "Tasks Error"], uuid + 1)
  /\ uuid' = uuid + 1
  /\ calls' = [calls EXCEPT ![c] = Finished(calls[c])]
  /\ UNCHANGED healthVars
  /\ op' = [name |-> "loadTasksRejected", id |-> c]
  /\ UNCHANGED <<boardStore, boardView, boardRemote, currentView, chatRest,
                 botVars>>

\* a project card's onClick: setActiveProject(p._id)
selectProject(i) ==
  /\ currentView = "projects" /\ ~loading
  /\ i \in 1..Len(projects)
  /\ CanStart
  /\ activeProjectId' = projects[i]._id
  /\ calls' = calls \o EffectCalls(projects[i]._id)
  /\ UNCHANGED healthVars
  /\ op' = [name |-> "selectProject", id |-> i]
  /\ UNCHANGED <<projects, tasks, boardView, boardRemote, notifVars, uuid,
                 currentView, chatRest, botVars>>

\* handleCreateProject up to `await createProject`; the backend stores the
\* project under a fresh id, or fails
handleCreateProject(name, ok) ==
  LET p == [_id |-> "p" \o ToString(remoteCount + 1), name |-> name] IN
  /\ currentView = "projects"
  /\ Trim(name) # <<>>
  /\ CanStart
  /\ calls' = Append(calls, [NoCall EXCEPT !.type = "createProject",
                                           !.mount = mounts, !.ok = ok,
                                           !.projects = projects, !.data = p,
                                           !.name = name])
  /\ IF ok
     THEN /\ remoteProjects' = Append(remoteProjects, p)
          /\ remoteCount' = remoteCount + 1
          /\ UNCHANGED remoteTasks
     ELSE UNCHANGED boardRemote
  /\ UNCHANGED healthVars
  /\ op' = [name |-> "handleCreateProject", id |-> Len(calls) + 1]
  /\ UNCHANGED <<boardStore, boardView, notifVars, uuid, currentView, chatRest,
                 botVars>>

\* handleCreateProject after createProject resolved with p
createProjectResolved(c) ==
  LET call == calls[c] IN
  /\ call.type = "createProject" /\ call.stage = "inflight" /\ call.ok
  /\ projects' = Append(call.projects, call.data)
  /\ activeProjectId' = call.data._id
  /\ PushEffect([type |-> "success", title |-> "Project Created"], uuid + 1)
  /\ uuid' = uuid + 1
  /\ calls' = [calls EXCEPT ![c] = Finished(calls[c])]
                \o EffectCalls(call.data._id)
  /\ UNCHANGED healthVars
  /\ op' = [name |-> "createProjectResolved", id |-> c]
  /\ UNCHANGED <<tasks, boardView, boardRemote, currentView, chatRest, botVars>>

\* handleCreateProject after createProject threw
createProjectRejected(c) ==
  /\ calls[c].type = "createProject" /\ calls[c].stage = "inflight"
  /\ ~calls[c].ok
  /\ PushEffect([type |-> "error", title |-> "Error"], uuid + 1)
  /\ uuid' = uuid + 1
  /\ calls' = [calls EXCEPT ![c] = Finished(calls[c])]
  /\ UNCHANGED healthVars
  /\ op' = [name |-> "createProjectRejected", id |-> c]
  /\ UNCHANGED <<boardStore, boardView, boardRemote, currentView, chatRest,
                 botVars>>

\* the delete dialog is rendered: showDeleteProject && activeProject
DeleteDialogShown ==
  /\ currentView = "projects"
  /\ showDeleteProject
  /\ FindProject(projects, activeProjectId) # <<>>

\* the board (header, columns, cards) is rendered: !activeProject shows the
\* empty state instead
BoardShown ==
  /\ currentView = "projects"
  /\ FindProject(projects, activeProjectId) # <<>>

\* the trash button of the active project's header: setShowDeleteProject(true)
openDeleteDialog ==
  /\ BoardShown
  /\ ~showDeleteProject
  /\ showDeleteProject' = TRUE
  /\ UNCHANGED healthVars
  /\ op' = [name |-> "openDeleteDialog", id |-> 0]
  /\ UNCHANGED <<boardStore, mounts, editingTask, loading, deleteConfirmationName, dragging, calls,
                 boardRemote, notifVars, uuid, currentView, chatRest, botVars>>

\* the confirmation field's onChange: setDeleteConfirmationName(e.target.value)
typeConfirmation(typed) ==
  /\ DeleteDialogShown
  /\ deleteConfirmationName' = typed
  /\ UNCHANGED healthVars
  /\ op' = [name |-> "typeConfirmation", id |-> 0]
  /\ UNCHANGED <<boardStore, mounts, editingTask, loading, showDeleteProject, dragging, calls,
                 boardRemote, notifVars, uuid, currentView, chatRest, botVars>>

\* the dialog's CANCEL button: setShowDeleteProject(false);
\* setDeleteConfirmationName("")
cancelDeleteDialog ==
  /\ DeleteDialogShown
  /\ showDeleteProject' = FALSE
  /\ deleteConfirmationName' = <<>>
  /\ UNCHANGED healthVars
  /\ op' = [name |-> "cancelDeleteDialog", id |-> 0]
  /\ UNCHANGED <<boardStore, mounts, editingTask, loading, dragging, calls,
                 boardRemote, notifVars, uuid, currentView, chatRest, botVars>>

\* handleDeleteProject up to `await fetch(.../debug/test_project)`; the
\* DELETE PROJECT button is disabled by the same comparison (line 1235), the
\* handler's own check is what decides here, whatever was typed
handleDeleteProject ==
  LET projectToDelete == FindProject(projects, activeProjectId)[1] IN
  /\ DeleteDialogShown
  /\ IF NameMatches(deleteConfirmationName, projectToDelete.name)
     THEN /\ CanStart
          /\ calls' = Append(calls, [NoCall EXCEPT !.type = "deleteProject",
                                       !.stage = "debug", !.mount = mounts,
                                       !.pid = activeProjectId,
                                       !.projects = projects,
                                       !.name = projectToDelete.name,
                                       !.typed = deleteConfirmationName])
          /\ UNCHANGED healthVars
          /\ op' = [name |-> "handleDeleteProject", id |-> Len(calls) + 1]
          /\ UNCHANGED <<notifVars, uuid>>
     ELSE /\ uuid < MaxMismatches
          /\ PushEffect([type |-> "error", title |-> "Validation Error"], uuid + 1)
          /\ uuid' = uuid + 1
          /\ UNCHANGED healthVars
          /\ op' = [name |-> "handleDeleteProject", id |-> 0]
          /\ UNCHANGED calls
  /\ UNCHANGED <<boardStore, boardView, boardRemote, currentView, chatRest,
                 botVars>>

\* handleDeleteProject after the debug fetch answered 404
deleteProjectBlocked(c) ==
  /\ calls[c].type = "deleteProject" /\ calls[c].stage = "debug"
  /\ PushEffect([type |-> "error", title |-> "BACKEND RESTART REQUIRED"], uuid + 1)
  /\ uuid' = uuid + 1
  /\ calls' = [calls EXCEPT ![c] = Finished(calls[c])]
  /\ UNCHANGED healthVars
  /\ op' = [name |-> "deleteProjectBlocked", id |-> c]
  /\ UNCHANGED <<boardStore, boardView, boardRemote, currentView, chatRest,
                 botVars>>

\* handleDeleteProject after the debug fetch answered anything else or threw,
\* up to `await deleteProject(activeProjectId)`; the backend removes the
\* project and its tasks, or fails
deleteProjectSent(c, ok) ==
  LET pid == calls[c].pid
      keep(t) == t.project_id # pid
  IN
  /\ calls[c].type = "deleteProject" /\ calls[c].stage = "debug"
  /\ ok => FindProject(remoteProjects, pid) # <<>>
  /\ calls' = [calls EXCEPT ![c].stage = "inflight", ![c].ok = ok]
  /\ IF ok
     THEN /\ remoteProjects' = WithoutProject(remoteProjects, pid)
          /\ remoteTasks' = SelectSeq(remoteTasks, keep)
          /\ UNCHANGED remoteCount
     ELSE UNCHANGED boardRemote
  /\ UNCHANGED healthVars
  /\ op' = [name |-> "deleteProjectSent", id |-> c]
  /\ UNCHANGED <<boardStore, boardView, notifVars, uuid, currentView, chatRest,
                 botVars>>

\* handleDeleteProject after deleteProject resolved
deleteProjectResolved(c) ==
  LET call == calls[c]
      remaining == WithoutProject(call.projects, call.pid)
      newActive == IF Len(remaining) > 0 THEN remaining[1]._id ELSE null
      mine == currentView = "projects" /\ call.mount = mounts
  IN
  /\ call.type = "deleteProject" /\ call.stage = "inflight" /\ call.ok
  /\ projects' = remaining
  /\ showDeleteProject' = IF mine THEN FALSE ELSE showDeleteProject
  /\ deleteConfirmationName' = IF mine THEN <<>> ELSE deleteConfirmationName
  /\ activeProjectId' = newActive
  /\ PushEffect([type |-> "success", title |-> "Project Deleted"], uuid + 1)
  /\ uuid' = uuid + 1
  /\ calls' = [calls EXCEPT ![c] = Finished(calls[c])] \o EffectCalls(newActive)
  /\ UNCHANGED healthVars
  /\ op' = [name |-> "deleteProjectResolved", id |-> c]
  /\ UNCHANGED <<tasks, mounts, editingTask, loading, dragging, boardRemote, currentView, chatRest,
                 botVars>>

\* handleDeleteProject after deleteProject threw
deleteProjectRejected(c) ==
  /\ calls[c].type = "deleteProject" /\ calls[c].stage = "inflight"
  /\ ~calls[c].ok
  /\ PushEffect([type |-> "error", title |-> "Error"], uuid + 1)
  /\ uuid' = uuid + 1
  /\ calls' = [calls EXCEPT ![c] = Finished(calls[c])]
  /\ UNCHANGED healthVars
  /\ op' = [name |-> "deleteProjectRejected", id |-> c]
  /\ UNCHANGED <<boardStore, boardView, boardRemote, currentView, chatRest,
                 botVars>>

\* ------------------------------------------------------------- task board
\* STATUS_COLS (ProjectsView.tsx:15-20), the keys of the board's columns
StatusKeys == {"todo", "in_progress", "blocked", "done"}

\* const robustId = task.id || task._id || ""
RobustId(task) ==
  IF task.id # undefined THEN task.id
  ELSE IF task._id # undefined THEN task._id ELSE ""

\* tasks.map((t) => (t.id === taskId ? { ...t, status: newStatus } : t))
StatusSet(ts, taskId, newStatus) ==
  [i \in 1..Len(ts) |->
     IF ts[i].id = taskId THEN [ts[i] EXCEPT !.status = newStatus] ELSE ts[i]]

\* PATCH /tasks/{taskId}/status: the tasks the backend finds under taskId
RemoteMatches(ts, taskId) ==
  {i \in 1..Len(ts) : taskId # undefined /\ taskId \in {ts[i].id, ts[i]._id}}

\* the backend's tasks after PATCH /tasks/{taskId}/status?status=newStatus
RemoteStatusSet(ts, taskId, newStatus) ==
  [i \in 1..Len(ts) |->
     IF i \in RemoteMatches(ts, taskId)
     THEN [ts[i] EXCEPT !.status = newStatus] ELSE ts[i]]

\* handleStatusChange up to `await updateTaskStatus`, called from src; the
\* backend sets the status of the task it finds, or fails
handleStatusChange(src, taskId, newStatus, ok) ==
  /\ CanStart
  /\ ok => RemoteMatches(remoteTasks, taskId) # {}
  /\ calls' = Append(calls, [NoCall EXCEPT !.type = "status", !.mount = mounts,
                                           !.ok = ok, !.tasks = tasks,
                                           !.taskId = taskId,
                                           !.status = newStatus,
                                           !.src = src])
  /\ remoteTasks' = IF ok THEN RemoteStatusSet(remoteTasks, taskId, newStatus)
                          ELSE remoteTasks
  /\ UNCHANGED healthVars
  /\ op' = [name |-> src, id |-> Len(calls) + 1]
  /\ UNCHANGED <<boardStore, boardView, remoteProjects, remoteCount,
                 notifVars, uuid, currentView, chatRest, botVars>>

\* a card's onDragStart: setDragging(robustId), whatever was dragged before
\* (only onDrop resets dragging, there is no onDragEnd)
onDragStart(i) ==
  /\ BoardShown
  /\ i \in 1..Len(tasks)
  /\ dragging' = RobustId(tasks[i])
  /\ UNCHANGED healthVars
  /\ op' = [name |-> "onDragStart", id |-> i]
  /\ UNCHANGED <<boardStore, mounts, editingTask, loading, showDeleteProject,
                 deleteConfirmationName, calls, boardRemote, notifVars, uuid,
                 currentView, chatRest, botVars>>

\* a column's onDrop: if (dragging != null) await handleStatusChange(dragging, col.key)
onDrop(key, ok) ==
  /\ BoardShown
  /\ dragging # null
  /\ handleStatusChange("onDrop", dragging, key, ok)

\* a card's "move to" button: handleStatusChange(task.id, c.key), c.key !== col.key
moveButton(i, key, ok) ==
  /\ BoardShown
  /\ i \in 1..Len(tasks)
  /\ key # tasks[i].status
  /\ handleStatusChange("moveButton", tasks[i].id, key, ok)

\* setDragging(null) of onDrop once handleStatusChange has returned
DraggingAfter(c) ==
  IF calls[c].src = "onDrop" /\ currentView = "projects"
     /\ calls[c].mount = mounts
  THEN null ELSE dragging

\* handleStatusChange after updateTaskStatus resolved
statusResolved(c) ==
  /\ calls[c].type = "status" /\ calls[c].stage = "inflight" /\ calls[c].ok
  /\ tasks' = StatusSet(calls[c].tasks, calls[c].taskId, calls[c].status)
  /\ dragging' = DraggingAfter(c)
  /\ calls' = [calls EXCEPT ![c] = Finished(calls[c])]
  /\ UNCHANGED healthVars
  /\ op' = [name |-> "statusResolved", id |-> c]
  /\ UNCHANGED <<projects, activeProjectId, mounts, editingTask, loading, showDeleteProject,
                 deleteConfirmationName, boardRemote, notifVars, uuid,
                 currentView, chatRest, botVars>>

\* handleStatusChange after updateTaskStatus threw: catch (e) {}
statusRejected(c) ==
  /\ calls[c].type = "status" /\ calls[c].stage = "inflight" /\ ~calls[c].ok
  /\ dragging' = DraggingAfter(c)
  /\ calls' = [calls EXCEPT ![c] = Finished(calls[c])]
  /\ UNCHANGED healthVars
  /\ op' = [name |-> "statusRejected", id |-> c]
  /\ UNCHANGED <<boardStore, mounts, editingTask, loading, showDeleteProject,
                 deleteConfirmationName, boardRemote, notifVars, uuid,
                 currentView, chatRest, botVars>>

\* titles typed into the "new task" dialog
TaskTitles == {<<"T">>, <<" ">>}

\* POST /tasks: the entity the backend stores and returns
CreatedTask(remote, pid) ==
  LET deletes == {c \in 1..Len(calls) : calls[c].type = "deleteTask"}
      tid == "t" \o ToString(Len(remote) + Cardinality(deletes) + 1)
  IN  [id |-> tid, _id |-> tid, project_id |-> pid, status |-> "todo"]

\* handleCreateTask up to its await: the guard, then createTask is called
handleCreateTask(title, ok) ==
  LET t == CreatedTask(remoteTasks, activeProjectId) IN
  /\ currentView = "projects"
  /\ Trim(title) # <<>>
  /\ activeProjectId # null
  /\ CanStart
  /\ calls' = Append(calls, [NoCall EXCEPT !.type = "createTask",
                                           !.mount = mounts, !.ok = ok,
                                           !.active = activeProjectId,
                                           !.tasks = tasks,
                                           !.data = IF ok THEN t ELSE <<>>,
                                           !.name = title])
  /\ remoteTasks' = IF ok THEN Append(remoteTasks, t) ELSE remoteTasks
  /\ UNCHANGED healthVars
  /\ op' = [name |-> "handleCreateTask", id |-> Len(calls) + 1]
  /\ UNCHANGED <<boardStore, boardView, remoteProjects, remoteCount,
                 notifVars, uuid, currentView, chatRest, botVars>>

\* a plausible slip: the task is appended to the list on failure as well
createTaskRejectedAppends(c) ==
  /\ calls[c].type = "createTask" /\ calls[c].stage = "inflight"
  /\ ~calls[c].ok
  /\ tasks' = Append(calls[c].tasks,
                     CreatedTask(remoteTasks, calls[c].active))
  /\ PushEffect([type |-> "error", title |-> "Error"], uuid + 1)
  /\ uuid' = uuid + 1
  /\ calls' = [calls EXCEPT ![c] = Finished(calls[c])]
  /\ UNCHANGED healthVars
  /\ op' = [name |-> "createTaskRejected", id |-> c]
  /\ UNCHANGED <<projects, activeProjectId, boardView, boardRemote,
                 currentView, chatRest, botVars>>

\* handleCreateTask after createTask resolved with t
createTaskResolved(c) ==
  LET call == calls[c] IN
  /\ call.type = "createTask" /\ call.stage = "inflight" /\ call.ok
  /\ tasks' = Append(call.tasks, call.data)
  /\ PushEffect([type |-> "success", title |-> "Task Added"], uuid + 1)
  /\ uuid' = uuid + 1
  /\ calls' = [calls EXCEPT ![c] = Finished(calls[c])]
  /\ UNCHANGED healthVars
  /\ op' = [name |-> "createTaskResolved", id |-> c]
  /\ UNCHANGED <<projects, activeProjectId, boardView, boardRemote,
                 currentView, chatRest, botVars>>

\* handleCreateTask after createTask threw
createTaskRejected(c) ==
  /\ calls[c].type = "createTask" /\ calls[c].stage = "inflight"
  /\ ~calls[c].ok
  /\ PushEffect([type |-> "error", title |-> "Error"], uuid + 1)
  /\ uuid' = uuid + 1
  /\ calls' = [calls EXCEPT ![c] = Finished(calls[c])]
  /\ UNCHANGED healthVars
  /\ op' = [name |-> "createTaskRejected", id |-> c]
  /\ UNCHANGED <<boardStore, boardView, boardRemote, currentView, chatRest,
                 botVars>>

\* tasks.filter((t) => t.id !== taskId && t._id !== taskId)
WithoutTask(ts, taskId) ==
  LET keep(t) == t.id # taskId /\ t._id # taskId IN SelectSeq(ts, keep)

\* the backend's tasks after DELETE /tasks/{taskId}
RemoteWithoutTask(ts, taskId) ==
  LET rest == {i \in 1..Len(ts) : i \notin RemoteMatches(ts, taskId)}
      keep(t) == \E i \in rest : ts[i] = t
  IN  SelectSeq(ts, keep)

\* handleDeleteTask(robustId) of card i up to `await deleteTask`: a card
\* without an id is reported and nothing is sent; otherwise, window.confirm
\* accepted, the backend removes the task, or fails
handleDeleteTask(i, ok) ==
  LET taskId == RobustId(tasks[i]) IN
  /\ BoardShown
  /\ i \in 1..Len(tasks)
  /\ IF taskId = ""
     THEN /\ PushEffect([type |-> "error", title |-> "Error"], uuid + 1)
          /\ uuid' = uuid + 1
          /\ UNCHANGED <<calls, remoteTasks>>
     ELSE /\ CanStart
          /\ ok => RemoteMatches(remoteTasks, taskId) # {}
          /\ calls' = Append(calls, [NoCall EXCEPT !.type = "deleteTask",
                                                   !.mount = mounts,
                                                   !.ok = ok,
                                                   !.tasks = tasks,
                                                   !.taskId = taskId])
          /\ remoteTasks' = IF ok THEN RemoteWithoutTask(remoteTasks, taskId)
                                  ELSE remoteTasks
          /\ UNCHANGED <<notifVars, uuid>>
  /\ UNCHANGED healthVars
  /\ op' = [name |-> "handleDeleteTask", id |-> Len(calls) + 1]
  /\ UNCHANGED <<boardStore, boardView, remoteProjects, remoteCount,
                 currentView, chatRest, botVars>>

\* handleDeleteTask after deleteTask resolved: the list its render captured,
\* without the task
deleteTaskResolved(c) ==
  /\ calls[c].type = "deleteTask" /\ calls[c].stage = "inflight"
  /\ calls[c].ok
  /\ tasks' = WithoutTask(calls[c].tasks, calls[c].taskId)
  /\ PushEffect([type |-> "info", title |-> "Task Deleted"], uuid + 1)
  /\ uuid' = uuid + 1
  /\ calls' = [calls EXCEPT ![c] = Finished(calls[c])]
  /\ UNCHANGED healthVars
  /\ op' = [name |-> "deleteTaskResolved", id |-> c]
  /\ UNCHANGED <<projects, activeProjectId, boardView, boardRemote,
                 currentView, chatRest, botVars>>

\* handleDeleteTask after deleteTask threw
deleteTaskRejected(c) ==
  /\ calls[c].type = "deleteTask" /\ calls[c].stage = "inflight"
  /\ ~calls[c].ok
  /\ PushEffect([type |-> "error", title |-> "Error"], uuid + 1)
  /\ uuid' = uuid + 1
  /\ calls' = [calls EXCEPT ![c] = Finished(calls[c])]
  /\ UNCHANGED healthVars
  /\ op' = [name |-> "deleteTaskRejected", id |-> c]
  /\ UNCHANGED <<boardStore, boardView, boardRemote, currentView, chatRest,
                 botVars>>

\* PATCH /tasks/{taskId}: the entity the backend returns, the stored task with
\* both identifier fields filled in (title, description and priority are not
\* part of the model's tasks)
UpdatedTask(remote, taskId) ==
  LET i == CHOOSE i \in RemoteMatches(remote, taskId) : TRUE
  IN  [remote[i] EXCEPT !.id = taskId, !._id = taskId]

\* tasks.map((t) => t.id === robustId || t._id === robustId ? updated : t)
TaskReplaced(ts, robustId, updated) ==
  [i \in 1..Len(ts) |->
     IF ts[i].id = robustId \/ ts[i]._id = robustId THEN updated ELSE ts[i]]

\* a card's edit button: handleOpenEditTask(task) keeps the task of the card
\* as it is rendered now
handleOpenEditTask(i) ==
  /\ BoardShown
  /\ i \in 1..Len(tasks)
  /\ editingTask' = <<tasks[i]>>
  /\ UNCHANGED healthVars
  /\ op' = [name |-> "handleOpenEditTask", id |-> i]
  /\ UNCHANGED <<boardStore, mounts, loading, showDeleteProject,
                 deleteConfirmationName, dragging, calls, boardRemote,
                 notifVars, uuid, currentView, chatRest, botVars>>

\* the edit dialog's CANCEL button: setEditingTask(null); the dialog is
\* rendered whenever editingTask is set, with or without an active project
cancelEditTask ==
  /\ currentView = "projects"
  /\ editingTask # <<>>
  /\ editingTask' = <<>>
  /\ UNCHANGED healthVars
  /\ op' = [name |-> "cancelEditTask", id |-> 0]
  /\ UNCHANGED <<boardStore, mounts, loading, showDeleteProject,
                 deleteConfirmationName, dragging, calls, boardRemote,
                 notifVars, uuid, currentView, chatRest, botVars>>

\* the edit dialog's save button, with a title in the form: handleUpdateTask
\* up to `await updateTask`; the id is the one of editingTask, the list the
\* one of this render; a task without an id makes it return at once
handleUpdateTask(ok) ==
  LET robustId == RobustId(editingTask[1]) IN
  /\ currentView = "projects"
  /\ editingTask # <<>>
  /\ IF robustId = ""
     THEN UNCHANGED calls
     ELSE /\ CanStart
          /\ ok => RemoteMatches(remoteTasks, robustId) # {}
          /\ calls' = Append(calls,
               [NoCall EXCEPT !.type = "updateTask",
                              !.mount = mounts, !.ok = ok,
                              !.tasks = tasks,
                              !.taskId = robustId,
                              !.data = IF ok
                                       THEN UpdatedTask(remoteTasks, robustId)
                                       ELSE <<>>])
  /\ UNCHANGED healthVars
  /\ op' = [name |-> "handleUpdateTask", id |-> Len(calls) + 1]
  /\ UNCHANGED <<boardStore, boardView, boardRemote,
                 notifVars, uuid, currentView, chatRest, botVars>>

\* handleUpdateTask after updateTask resolved with the updated entity:
\* setTasks, setEditingTask(null) of the view that made the call
updateTaskResolved(c) ==
  /\ calls[c].type = "updateTask" /\ calls[c].stage = "inflight"
  /\ calls[c].ok
  /\ tasks' = TaskReplaced(calls[c].tasks, calls[c].taskId, calls[c].data)
  /\ editingTask' = IF currentView = "projects" /\ calls[c].mount = mounts
                    THEN <<>> ELSE editingTask
  /\ PushEffect([type |-> "success", title |-> "Task Updated"], uuid + 1)
  /\ uuid' = uuid + 1
  /\ calls' = [calls EXCEPT ![c] = Finished(calls[c])]
  /\ UNCHANGED healthVars
  /\ op' = [name |-> "updateTaskResolved", id |-> c]
  /\ UNCHANGED <<projects, activeProjectId, mounts, loading,
                 showDeleteProject, deleteConfirmationName, dragging,
                 boardRemote, currentView, chatRest, botVars>>

\* handleUpdateTask after updateTask threw
updateTaskRejected(c) ==
  /\ calls[c].type = "updateTask" /\ calls[c].stage = "inflight"
  /\ ~calls[c].ok
  /\ PushEffect([type |-> "error", title |-> "Update Failed"], uuid + 1)
  /\ uuid' = uuid + 1
  /\ calls' = [calls EXCEPT ![c] = Finished(calls[c])]
  /\ UNCHANGED healthVars
  /\ op' = [name |-> "updateTaskRejected", id |-> c]
  /\ UNCHANGED <<boardStore, boardView, boardRemote, currentView, chatRest,
                 botVars>>

\* ---------------------------------------------------------- request wrapper
\* HTTP statuses a response may carry
HttpStatuses == {200, 404, 500}

\* res.ok
IsOk(status) == status >= 200 /\ status <= 299

\* the payload of /health: null (<<>>), or an object whose ollama field is
\* "connected", something else, or missing
HealthPayloads == {<<>>, <<"connected">>, <<"disconnected">>, <<undefined>>}

\* a body that res.json() parses to an object: the envelope; message "" is a
\* missing or empty message, error <<>> a missing error, <<m>> an error
\* object with message m
Envelopes ==
  [parsed : {"object"}, success : BOOLEAN, message : {"", "msg"},
   error : {<<>>, <<"">>, <<"err">>}, payload : HealthPayloads]

\* a body that is not JSON, and a body that is the JSON value null
NoEnvelope(parsed) ==
  [parsed |-> parsed, success |-> FALSE, message |-> "", error |-> <<>>,
   payload |-> <<>>]

Bodies == Envelopes \cup {NoEnvelope("no"), NoEnvelope("null")}

\* what fetch comes back with: a rejection (net = FALSE) or a response
Responses ==
  {[net |-> TRUE, status |-> st, body |-> b] : st \in HttpStatuses, b \in Bodies}
    \cup {[net |-> FALSE, status |-> 0, body |-> NoEnvelope("no")]}

\* the two ways req ends
Thrown(msg) == [ok |-> FALSE, value |-> <<>>, message |-> msg]
Returned(v) == [ok |-> TRUE, value |-> v, message |-> ""]

\* `API Error (${res.status})`
StatusMessage(status) == "API Error (" \o ToString(status) \o ")"

\* data?.error?.message || data?.message || `API Error (${res.status})`
ErrorMessage(status, data) ==
  IF data.error # <<>> /\ data.error[1] # "" THEN data.error[1]
  ELSE IF data.message # "" THEN data.message
  ELSE StatusMessage(status)

\* req(path, opts)
Req(resp) ==
  IF ~resp.net THEN Thrown("Failed to fetch")
  ELSE IF resp.body.parsed = "no"
  THEN Thrown("Invalid JSON response from server")
  ELSE IF resp.body.parsed = "null"
  THEN IF IsOk(resp.status)
       THEN Thrown("Cannot read properties of null")
       ELSE Thrown(StatusMessage(resp.status))
  ELSE IF ~IsOk(resp.status) \/ ~resp.body.success
  THEN Thrown(ErrorMessage(resp.status, resp.body))
  ELSE Returned(resp.body.payload)

\* ----------------------------------------------------------- health polling
\* useNexusStore initial state: ollamaOnline: false; no poll made yet
InitHealth ==
  /\ ollamaOnline = FALSE
  /\ healthInFlight = 0
  /\ healthCount = 0
  /\ lastHealth = <<>>
  /\ tests = <<>> /\ testing = null /\ tab = "integrations"

\* a plausible slip: any answer of the backend counts as the runtime being up
OnlineAfterAnyReturn(result) == result.ok

\* poll after checkHealth settled: h.ollama === "connected", false in catch
\* (a null payload makes h.ollama throw inside the try)
OnlineAfter(result) ==
  result.ok /\ result.value # <<>> /\ result.value[1] = "connected"

\* poll up to `await checkHealth()`: at mount and on every 15 s tick
healthPoll ==
  /\ healthCount + Len(tests) < MaxHealthPolls
  /\ healthCount' = healthCount + 1
  /\ healthInFlight' = healthInFlight + 1
  /\ op' = [name |-> "healthPoll", id |-> healthCount + 1]
  /\ UNCHANGED <<ollamaOnline, lastHealth, settingsView>>
  /\ UNCHANGED <<chatVars, notifVars, botVars, boardVars, uuid>>

\* poll after checkHealth settled with what req made of the response
healthSettled(resp) ==
  /\ healthInFlight > 0
  /\ healthInFlight' = healthInFlight - 1
  /\ ollamaOnline' = OnlineAfter(Req(resp))
  /\ lastHealth' = <<[resp |-> resp, result |-> Req(resp)]>>
  /\ op' = [name |-> "healthSettled", id |-> 0]
  /\ UNCHANGED <<healthCount, settingsView>>
  /\ UNCHANGED <<chatVars, notifVars, botVars, boardVars, uuid>>

\* the tabs of the settings view and its tab buttons: setTab(t.key)
Tabs == {"integrations", "llm", "scheduler", "notifications", "about"}
setTab(t) ==
  /\ currentView = "settings"
  /\ tab' = t
  /\ op' = [name |-> "setTab", id |-> 0]
  /\ UNCHANGED <<healthPolling, tests, testing>>
  /\ UNCHANGED <<chatVars, notifVars, botVars, boardVars, uuid>>

\* the two tests of the integrations tab
TestTypes == {"backend", "telegram"}

\* testConnection(type) of a TEST button (disabled while testing === its id)
\* up to its first await: setTesting(type), then checkHealth() is called for
\* the backend and getMe for Telegram; without a bot token the Telegram test
\* notifies, returns and its finally runs setTesting(null)
testConnection(type) ==
  LET noToken == type = "telegram" /\ settings.telegramToken = "" IN
  /\ currentView = "settings" /\ tab = "integrations"
  /\ testing # type
  /\ healthCount + Len(tests) < MaxHealthPolls
  /\ tests' = Append(tests, [type |-> type,
                             stage |-> IF noToken THEN "done" ELSE "inflight",
                             mounted |-> TRUE])
  /\ testing' = IF noToken THEN null ELSE type
  /\ IF noToken
     THEN /\ PushEffect([type |-> "error", title |-> "Telegram"], uuid + 1)
          /\ uuid' = uuid + 1
     ELSE UNCHANGED <<notifVars, uuid>>
  /\ op' = [name |-> "testConnection", id |-> Len(tests) + 1]
  /\ UNCHANGED <<healthPolling, tab>>
  /\ UNCHANGED <<chatVars, botVars, boardVars>>

\* setTesting(null) in the finally of test k: it reaches the view that
\* started the test, if that one is still mounted
TestingAfter(k) == IF tests[k].mounted THEN null ELSE testing

\* testConnection("backend") after checkHealth settled with what req made of
\* the response: the flag is written and the result notified when it
\* returned a payload; the catch (a thrown error, or the TypeError of
\* h.ollama on a null payload) only notifies
testSettled(k, resp) ==
  LET result == Req(resp)
      returned == result.ok /\ result.value # <<>>
      ollamaOk == OnlineAfter(result)
  IN
  /\ tests[k].type = "backend" /\ tests[k].stage = "inflight"
  /\ tests' = [tests EXCEPT ![k].stage = "done"]
  /\ testing' = TestingAfter(k)
  /\ ollamaOnline' = IF returned THEN ollamaOk ELSE ollamaOnline
  /\ PushEffect([type |-> IF returned
                          THEN (IF ollamaOk THEN "success" ELSE "warning")
                          ELSE "error",
                 title |-> IF returned THEN "Backend Test"
                           ELSE "backend Test Failed"], uuid + 1)
  /\ uuid' = uuid + 1
  /\ op' = [name |-> "testSettled", id |-> k]
  /\ UNCHANGED <<healthInFlight, healthCount, lastHealth, tab>>
  /\ UNCHANGED <<chatVars, botVars, boardVars>>

\* how getMe ends for the Telegram test: d.ok with a result, d.ok false, or
\* the catch (fetch rejected, a body that is not JSON, d null, d.ok without
\* a result)
TelegramAnswers == {"ok", "invalid", "thrown"}

\* testConnection("telegram") after getMe settled
telegramTestSettled(k, answer) ==
  /\ tests[k].type = "telegram" /\ tests[k].stage = "inflight"
  /\ tests' = [tests EXCEPT ![k].stage = "done"]
  /\ testing' = TestingAfter(k)
  /\ PushEffect([type |-> IF answer = "ok" THEN "success" ELSE "error",
                 title |-> IF answer = "thrown" THEN "telegram Test Failed"
                           ELSE "Telegram Test"], uuid + 1)
  /\ uuid' = uuid + 1
  /\ op' = [name |-> "telegramTestSettled", id |-> k]
  /\ UNCHANGED <<healthPolling, tab>>
  /\ UNCHANGED <<chatVars, botVars, boardVars>>

\* ------------------------------------------------------------------- Init
\* the client after construction: the store's initial state
\* (nexusStore.ts:113-144) and no handler in progress
InitClient ==
  /\ messages = <<>>
  /\ sessionId = null
  /\ isLoading = FALSE
  /\ currentView = "chat"
  /\ notifications = <<>>
  /\ unreadCount = 0
  /\ exiting = NoToasts
  /\ InitHealth
  /\ commandBarOpen = FALSE
  /\ listeners = MountListeners
  /\ sends = <<>>
  /\ clears = 0
  /\ uuid = 0
  /\ telegramConnected = FALSE
  /\ tgMessages = <<>>
  /\ isConnecting = FALSE
  /\ pollRef = 0
  /\ intervals = {}
  /\ offsets = <<>>
  /\ polls = <<>>
  /\ connects = <<>>
  /\ tgSends = <<>>
  /\ settings = [telegramToken |-> "", telegramChatId |-> ""]
  /\ srvUpdates = <<>>
  /\ srvCount = 0
  /\ projects = <<>>
  /\ tasks = <<>>
  /\ activeProjectId = null
  /\ InitBoardView
  /\ calls = <<>>
  /\ op = [name |-> "init", id |-> 0]

\* the client after construction, with a backend that stores nothing yet
Init ==
  /\ InitClient
  /\ remoteProjects = <<>>
  /\ remoteTasks = <<>>
  /\ remoteCount = 0

\* ----------------------------------------------- notification specification
NextNotif ==
  \/ \E n \in NotifInputs : pushNotification(n)
  \/ markAllRead
  \/ \E id \in 0..MaxDismissId : dismissNotification(id)

SpecNotif == Init /\ [][NextNotif]_vars

\* the notification store with the toasts that project it
NextToast ==
  \/ \E n \in NotifInputs : pushNotification(n)
  \/ markAllRead
  \/ \E id \in 0..MaxDismissId : dismissNotification(id)
  \/ \E id \in 1..MaxDismissId : toastExpired(id)
  \/ \E id \in 1..MaxDismissId : toastClosed(id)
  \/ \E id \in 1..MaxDismissId : toastDismissed(id)

SpecToast == Init /\ [][NextToast]_vars

\* C1: whatever sequence of pushNotification, markAllRead and
\* dismissNotification calls is made, the queue never holds more than 50
\* entries.
C1_QueueAtMostCap == Len(notifications) <= NotifCap

\* C1 witness: a push has been made on a full queue and the queue is still 50 long
C1_Witness ==
  /\ op.name = "pushNotification"
  /\ uuid > NotifCap
  /\ Len(notifications) = NotifCap

\* C2: a pushNotification step puts the new unread entry at the head, keeps
\* the first min(|q|, 49) old entries behind it in their old order, and drops
\* only entries from the tail.
C2_PushKeepsNewestInOrder ==
  [][op'.name = "pushNotification" =>
       /\ Len(notifications') = Min(Len(notifications), NotifCap - 1) + 1
       /\ notifications'[1].id = op'.id
       /\ notifications'[1].read = FALSE
       /\ \A i \in 2..Len(notifications') : notifications'[i] = notifications[i - 1]
    ]_vars

\* C2 witness: a push on a full queue dropped the oldest entry (id 1) and
\* kept entry 2 at the tail
C2_Witness ==
  /\ op.name = "pushNotification"
  /\ Len(notifications) = NotifCap
  /\ notifications[1].id = NotifCap + 1
  /\ notifications[NotifCap].id = 2

\* C12: a dismissNotification(id) step that follows a dismissNotification
\* step with the same id changes neither the notifications list nor
\* unreadCount (and is always enabled: it cannot fail).
C12_DismissIdempotent ==
  [][(op.name = "dismissNotification" /\ op'.name = "dismissNotification"
      /\ op'.id = op.id)
     => /\ notifications' = notifications
        /\ unreadCount' = unreadCount
        /\ notifications' = Dismissed(Dismissed(notifications, op.id), op.id)
    ]_vars

\* C12 witness: an unread notification that had been pushed was dismissed
\* while other entries stay queued, unread ones among them
C12_Witness ==
  /\ op.name = "dismissNotification"
  /\ op.id \in 1..uuid
  /\ \A i \in 1..Len(notifications) : notifications[i].id # op.id
  /\ Len(notifications) = uuid - 1
  /\ unreadCount > 0

\* C13: a markAllRead step leaves every queued notification read and
\* unreadCount = 0 without adding, removing or reordering entries, and a
\* markAllRead step that follows a markAllRead step changes nothing.
C13_MarkAllReadIdempotent ==
  [][op'.name = "markAllRead"
     => /\ Len(notifications') = Len(notifications)
        /\ \A i \in 1..Len(notifications) :
             notifications'[i] = [notifications[i] EXCEPT !.read = TRUE]
        /\ unreadCount' = 0
        /\ op.name = "markAllRead"
             => notifications' = notifications /\ unreadCount' = unreadCount
    ]_vars

\* C13 witness: markAllRead ran on a queue of at least two entries, some of
\* them pushed before an earlier markAllRead, and all are read
C13_Witness ==
  /\ op.name = "markAllRead"
  /\ Len(notifications) >= 2
  /\ \A i \in 1..Len(notifications) : notifications[i].read
  /\ unreadCount = 0

\* C14: a toast's disappearance (the step that ends its 250 ms grace period,
\* after the 5 s expiry or after an early click) leaves the notification
\* queue and unreadCount as they were.
C14_ToastLeavesQueueAlone ==
  [][op'.name = "toastDismissed"
     => /\ notifications' = notifications
        /\ unreadCount' = unreadCount
    ]_vars

\* C15: a dismissNotification(id) step whose id is not in the queue changes
\* neither the notifications list nor unreadCount.
C15_DismissAbsentIsNoOp ==
  [][(op'.name = "dismissNotification"
      /\ \A i \in 1..Len(notifications) : notifications[i].id # op'.id)
     => /\ notifications' = notifications
        /\ unreadCount' = unreadCount
    ]_vars

\* the queued notifications that are unread
UnreadQueued == {i \in 1..Len(notifications) : ~notifications[i].read}

\* C24: in every state reachable by pushNotification, markAllRead and
\* dismissNotification, unreadCount is the number of queued notifications
\* with read = FALSE.
C24_UnreadCountMatchesQueue == unreadCount = Cardinality(UnreadQueued)

\* ----------------------------------------------------- health specification
NextHealth ==
  \/ healthPoll
  \/ \E resp \in Responses : healthSettled(resp)
  \/ \E v \in {"chat", "settings"} : setView(v)
  \/ \E type \in TestTypes : testConnection(type)
  \/ \E k \in 1..Len(tests) : \E resp \in Responses : testSettled(k, resp)

SpecHealth == Init /\ [][NextHealth]_vars

\* the health check returned and reported the model runtime as connected
ReportedConnected(resp) ==
  /\ resp.net /\ IsOk(resp.status)
  /\ resp.body.parsed = "object" /\ resp.body.success
  /\ resp.body.payload = <<"connected">>

\* C21: the step that completes a health poll sets ollamaOnline to TRUE exactly
\* when the check returned successfully and reported "connected", and to
\* FALSE after a network failure, an error envelope or a malformed response;
\* it pushes no notification and it is enabled for every response (the
\* handler cannot fail).
C21_OnlineIffReportedConnected ==
  /\ [][op'.name = "healthSettled" =>
          /\ ollamaOnline' = ReportedConnected(lastHealth'[1].resp)
          /\ notifications' = notifications /\ unreadCount' = unreadCount
          /\ uuid' = uuid
       ]_vars
  /\ [](healthInFlight > 0 => \A resp \in Responses : ENABLED healthSettled(resp))

\* C21 witness: the second of two polls has completed on a response whose
\* body is not JSON; the flag is FALSE and nothing was notified
C21_Witness ==
  /\ op.name = "healthSettled"
  /\ healthCount = 2 /\ healthInFlight = 0
  /\ lastHealth[1].resp.net /\ lastHealth[1].resp.body.parsed = "no"
  /\ ~ollamaOnline
  /\ notifications = <<>>

\* C22: req returns the envelope's payload exactly when the status is ok and
\* success is true; otherwise it throws an error whose message is the
\* structured error message, else the envelope message, else the message
\* derived from the HTTP status; for a body that cannot be parsed the message
\* is the one derived from the HTTP status.
C22_ReqUnwrapsOrRaises ==
  \A i \in 1..Len(lastHealth) :
    LET resp == lastHealth[i].resp
        result == lastHealth[i].result
        data == resp.body
    IN  resp.net =>
          IF IsOk(resp.status) /\ data.parsed = "object" /\ data.success
          THEN result.ok /\ result.value = data.payload
          ELSE /\ ~result.ok
               /\ result.message =
                    IF data.parsed = "object" /\ data.error # <<>>
                       /\ data.error[1] # ""
                    THEN data.error[1]
                    ELSE IF data.parsed = "object" /\ data.message # ""
                    THEN data.message
                    ELSE StatusMessage(resp.status)

\* ------------------------------------------------------- chat specification
NextChat ==
  \/ \E text \in ChatInputs : submit(text)
  \/ \E k \in 1..Len(sends) : \E data \in ChatReplies(k, sends[k].sid) :
       submitResolved(k, data)
  \/ \E k \in 1..Len(sends) : submitRejected(k)
  \/ \E msg \in QuickPrompts : quickAsk(msg)
  \/ \E k \in 1..Len(sends) : quickAskTimeout(k)
  \/ \E k \in 1..Len(sends) : \E data \in ChatReplies(k, sends[k].sid) :
       quickAskResolved(k, data)
  \/ \E k \in 1..Len(sends) : quickAskRejected(k)
  \/ clearChatCommand
  \/ toggleCommandBar
  \/ \E v \in NavViews : setView(v)

SpecChat == Init /\ [][NextChat]_vars

\* the application shell: keyboard shortcuts, the sidebar, the chat input
NextShell ==
  \/ \E key \in Keys : \E mod \in BOOLEAN : keydown(key, mod)
  \/ toggleCommandBar
  \/ \E v \in NavViews : setView(v)
  \/ \E text \in ChatInputs : submit(text)
  \/ \E k \in 1..Len(sends) : \E data \in ChatReplies(k, sends[k].sid) :
       submitResolved(k, data)
  \/ \E k \in 1..Len(sends) : submitRejected(k)

SpecShell == Init /\ [][NextShell]_vars

\* C28: one press of Ctrl/Cmd+K flips commandBarOpen, from closed to open
\* and from open to closed.
C28_CtrlKTogglesOnce ==
  [][op'.name = "ctrlK" => commandBarOpen' = ~commandBarOpen]_vars

\* the command palette: opening it and confirming a typed query with Enter
NextBar ==
  \/ toggleCommandBar
  \/ \E query \in Queries : pressEnter(query)

SpecBar == Init /\ [][NextBar]_vars

\* a query is blank when it holds nothing but spaces
BlankQuery(query) == \A i \in 1..Len(query) : query[i] = " "

\* two letters that differ at most in case
SameLetter(a, b) == ToLowerCase(<<a>>) = ToLowerCase(<<b>>)

\* text contains query as a case-insensitive substring
ContainsCI(text, query) ==
  \E i \in 0..(Len(text) - Len(query)) :
    \A j \in 1..Len(query) : SameLetter(text[i + j], query[j])

\* the registry positions a query selects
Selected(query) ==
  {i \in 1..Len(COMMANDS) :
     \/ BlankQuery(query)
     \/ ContainsCI(COMMANDS[i].label, query)
     \/ \E j \in 1..Len(COMMANDS[i].keywords) :
          ContainsCI(COMMANDS[i].keywords[j], query)}

\* the positions selected by each of the queries typed, computed once
SelectedTable == {<<query, Selected(query)>> : query \in Queries}
SelectedOf(query) == (CHOOSE row \in SelectedTable : row[1] = query)[2]

\* the registry position of a command id
PositionOf(id) == CHOOSE i \in 1..Len(COMMANDS) : COMMANDS[i].id = id

\* C23: when Enter confirms a query, the filtered list holds exactly the
\* registered commands whose label or one of whose keywords contains the
\* query as a case-insensitive substring, in registry order, and every
\* command when the query is blank; the step runs the first command of that
\* list (a Navigate command shows its view and closes the palette, an Agent
\* command starts one quick prompt with its text, Clear Chat History empties
\* the conversation and forgets the session) and changes nothing when the
\* list is empty.
C23_EnterRunsFirstMatch ==
  [][op'.name = "pressEnter" =>
       LET query == op'.query
           shown == op'.shown
           first == COMMANDS[PositionOf(shown[1])]
           selected == SelectedOf(query)
       IN  /\ Len(shown) = Cardinality(selected)
           /\ \A i \in selected :
                \E k \in 1..Len(shown) : shown[k] = COMMANDS[i].id
           /\ \A k \in 1..Len(shown) : PositionOf(shown[k]) \in selected
           /\ \A k, l \in 1..Len(shown) :
                k < l => PositionOf(shown[k]) < PositionOf(shown[l])
           /\ Len(shown) = 0 =>
                UNCHANGED <<chatVars, notifVars, botVars, boardVars>>
           /\ Len(shown) > 0 =>
                /\ first.kind = "nav" =>
                     /\ currentView' = first.arg
                     /\ ~commandBarOpen'
                     /\ UNCHANGED <<messages, sessionId, sends>>
                /\ first.kind = "quick" =>
                     /\ Len(sends') = Len(sends) + 1
                     /\ sends'[Len(sends')].msg = <<first.arg>>
                     /\ ~commandBarOpen'
                     /\ UNCHANGED <<messages, sessionId>>
                /\ first.kind = "clear" =>
                     /\ messages' = <<>>
                     /\ sessionId' = null
                     /\ ~commandBarOpen'
                     /\ UNCHANGED sends]_vars

\* Enter confirmed "B": seven commands are listed, Open Projects first
\* (through its keyword "kanban"), Search Knowledge Base last (through the
\* capital B of its label); the first one ran, so the projects view is shown,
\* its board mounted and the palette closed
C23_Witness ==
  /\ op.name = "pressEnter"
  /\ op.query = <<"B">>
  /\ op.shown = <<"projects", "career", "code", "telegram", "brief",
                  "github-sync", "research-q">>
  /\ currentView = "projects"
  /\ mounts = 1
  /\ ~commandBarOpen

\* the send handlers and the clearing of the conversation, in the chat view
NextClear ==
  \/ \E text \in ChatInputs : submit(text)
  \/ \E k \in 1..Len(sends) : \E data \in ChatReplies(k, sends[k].sid) :
       submitResolved(k, data)
  \/ \E k \in 1..Len(sends) : submitRejected(k)
  \/ \E msg \in QuickPrompts : quickAsk(msg)
  \/ \E k \in 1..Len(sends) : quickAskTimeout(k)
  \/ \E k \in 1..Len(sends) : \E data \in ChatReplies(k, sends[k].sid) :
       quickAskResolved(k, data)
  \/ \E k \in 1..Len(sends) : quickAskRejected(k)
  \/ clearChatCommand
  \/ clearChat
  \/ toggleCommandBar

SpecClear == Init /\ [][NextClear]_vars

\* C19: the step that handles a send's success sets sessionId to the session
\* id the server issued when the send was started with sessionId = null, and
\* leaves sessionId as it is when the send was started with a session id;
\* the step that handles a send's failure leaves sessionId as it is. (A
\* send is started where its handler is called: for a quick prompt that is
\* the choice of the command, 200 ms before the request leaves.)
C19_SessionAdoptedOnlyFromNull ==
  /\ [][op'.name \in {"submitResolved", "quickAskResolved"} =>
          LET send == sends'[op'.id] IN
          /\ send.sid = sends[op'.id].sid
          /\ send.sid = null => sessionId' = send.issued /\ send.issued # null
          /\ send.sid # null => sessionId' = sessionId
       ]_vars
  /\ [][op'.name \in {"submitRejected", "quickAskRejected"} =>
          sessionId' = sessionId]_vars

\* C19 witness: two sends were started without a session; the second one's
\* success has set the session id the server issued for it
C19_Witness ==
  /\ op.name \in {"submitResolved", "quickAskResolved"}
  /\ Len(sends) = 2
  /\ sends[1].sid = null /\ sends[2].sid = null
  /\ sends[1].stage = "resolved" /\ sends[2].stage = "resolved"
  /\ sessionId = sends[op.id].issued
  /\ sessionId # null

\* C25: the step that handles the response or the failure of a send changes
\* no message but the placeholder this send inserted (the message whose id
\* the send was given for its placeholder), adds and removes none, and a
\* message it changes ends with isStreaming = FALSE.
C25_ResponseGoesToOwnPlaceholder ==
  [][op'.name \in {"submitResolved", "submitRejected", "quickAskResolved",
                   "quickAskRejected"} =>
       /\ Len(messages') = Len(messages)
       /\ \A i \in 1..Len(messages) :
            messages'[i] # messages[i] =>
              /\ messages[i].id = sends[op'.id].ph
              /\ ~messages'[i].isStreaming
    ]_vars

\* C20: a clearChat step leaves the message list empty and sessionId null
\* and changes nothing else: notifications, unreadCount, the busy flag,
\* currentView, commandBarOpen, telegramConnected, ollamaOnline, settings,
\* projects, tasks and activeProjectId are as before.
C20_ClearTouchesOnlyChat ==
  [][op'.name = "clearChat" =>
       /\ messages' = <<>>
       /\ sessionId' = null
       /\ notifications' = notifications /\ unreadCount' = unreadCount
       /\ isLoading' = isLoading
       /\ currentView' = currentView /\ commandBarOpen' = commandBarOpen
       /\ telegramConnected' = telegramConnected
       /\ ollamaOnline' = ollamaOnline /\ settings' = settings
       /\ projects' = projects /\ tasks' = tasks
       /\ activeProjectId' = activeProjectId
    ]_vars

\* C20 witness: clearChat ran on a conversation with a session while a send
\* was in flight; the list is empty, the session gone and busy still set
C20_Witness ==
  /\ op.name = "clearChat"
  /\ messages = <<>> /\ sessionId = null
  /\ isLoading
  /\ \E k \in 1..Len(sends) : sends[k].stage = "inflight" /\ sends[k].sid # null
  /\ notifications # <<>>

\* C30: when the conversation was cleared while a send was in flight and that
\* send's response or failure arrives next, the message list is still empty
\* and sessionId is still null after the arrival.
C30_LateResponseLeavesChatCleared ==
  [][(/\ op.name \in {"clearChat", "clearChatCommand"}
      /\ op'.name \in {"submitResolved", "submitRejected", "quickAskResolved",
                       "quickAskRejected"})
     => messages' = <<>> /\ sessionId' = null
    ]_vars

\* the send handlers alone: chat input and quick prompts, no clear
NextSend ==
  \/ \E text \in ChatInputs : submit(text)
  \/ \E k \in 1..Len(sends) : \E data \in ChatReplies(k, sends[k].sid) :
       submitResolved(k, data)
  \/ \E k \in 1..Len(sends) : submitRejected(k)
  \/ \E msg \in QuickPrompts : quickAsk(msg)
  \/ \E k \in 1..Len(sends) : quickAskTimeout(k)
  \/ \E k \in 1..Len(sends) : \E data \in ChatReplies(k, sends[k].sid) :
       quickAskResolved(k, data)
  \/ \E k \in 1..Len(sends) : quickAskRejected(k)
  \/ toggleCommandBar

SpecSend == Init /\ [][NextSend]_vars

\* every network call of a send completes, and every timer fires
SendCompletes ==
  \/ \E k \in 1..Len(sends) : \E data \in ChatReplies(k, sends[k].sid) :
       submitResolved(k, data) \/ quickAskResolved(k, data)
  \/ \E k \in 1..Len(sends) :
       submitRejected(k) \/ quickAskRejected(k) \/ quickAskTimeout(k)

SpecSendFair == Init /\ [][NextSend]_vars /\ WF_vars(SendCompletes)

\* the sends whose network call is outstanding
SendsInFlight == {k \in 1..Len(sends) : sends[k].stage = "inflight"}

\* C11: the step that ends a send (its call resolved or failed) sets
\* isLoading to false; whenever no send is in flight isLoading is false; and
\* if every call completes, every send in flight is followed by a state in
\* which it has ended and isLoading is false.
C11_BusyClearedAtEnd ==
  /\ [][op'.name \in {"submitResolved", "submitRejected", "quickAskResolved",
                       "quickAskRejected"} => isLoading' = FALSE]_vars
  /\ [](SendsInFlight = {} => ~isLoading)
  /\ \A k \in 1..MaxSends :
       (k \in SendsInFlight)
         ~> (k \in 1..Len(sends) /\ sends[k].stage \in {"resolved", "rejected"}
             /\ ~isLoading)

\* C11 witness: a chat send has failed, no send is in flight and isLoading is
\* false again
C11_Witness ==
  /\ op.name = "submitRejected"
  /\ sends[op.id].stage = "rejected"
  /\ SendsInFlight = {}
  /\ ~isLoading

\* C26: isLoading is TRUE in every state in which a send's network call is
\* outstanding, a step that starts a network call is taken only from a state
\* with isLoading = FALSE, and at most one send is in flight.
C26_BusyGatesSends ==
  /\ [](SendsInFlight # {} => isLoading)
  /\ [](Cardinality(SendsInFlight) <= 1)
  /\ [][op'.name \in {"submit", "quickAskTimeout"} => ~isLoading]_vars

\* the notice a failed send of the given kind writes
OfflineNotice(kind) ==
  IF kind = "chat" THEN OfflineNoticeChat ELSE OfflineNoticeQuick

\* C3: when a send's network call fails, the placeholder that send inserted
\* is its one assistant message, no longer streaming and holding the offline
\* notice; and every send makes the message list exactly two entries longer,
\* the user message and then the assistant message.
C3_FailedSendLeavesOfflineNotice ==
  [][/\ op'.name \in {"submitRejected", "quickAskRejected"} =>
          LET s == sends[op'.id]
              mine == {i \in 1..Len(messages') : messages'[i].id = s.ph}
          IN  /\ Cardinality(mine) = 1
              /\ \A i \in mine : /\ messages'[i].role = "assistant"
                                 /\ ~messages'[i].isStreaming
                                 /\ messages'[i].content = OfflineNotice(s.kind)
     /\ op'.name \in {"submit", "quickAskTimeout"} =>
          /\ Len(messages') = Len(messages) + 2
          /\ messages'[Len(messages') - 1].role = "user"
          /\ messages'[Len(messages')].role = "assistant"
    ]_vars

\* C7: at most one message of the list is streaming, in every reachable state
C7_AtMostOneStreaming ==
  Cardinality({i \in 1..Len(messages) : messages[i].isStreaming}) <= 1

\* --------------------------------------------------- Telegram specification
\* the Telegram view is shown for the first time, a bot token and a chat id
\* have been typed in
InitBot ==
  /\ messages = <<>> /\ sessionId = null /\ isLoading = FALSE
  /\ currentView = "telegram"
  /\ notifications = <<>> /\ unreadCount = 0 /\ exiting = NoToasts
  /\ InitHealth
  /\ commandBarOpen = FALSE /\ sends = <<>> /\ clears = 0 /\ uuid = 0
  /\ listeners = MountListeners
  /\ projects = <<>> /\ tasks = <<>> /\ activeProjectId = null
  /\ InitBoardView /\ calls = <<>>
  /\ remoteProjects = <<>> /\ remoteTasks = <<>> /\ remoteCount = 0
  /\ telegramConnected = FALSE /\ tgMessages = <<>> /\ isConnecting = FALSE
  /\ pollRef = 0 /\ intervals = {} /\ offsets = <<>> /\ polls = <<>>
  /\ connects = <<>> /\ tgSends = <<>>
  /\ settings = [telegramToken |-> "x", telegramChatId |-> "x"]
  /\ srvUpdates = <<>> /\ srvCount = 0
  /\ op = [name |-> "init", id |-> 0]

NextBot ==
  \/ \E v \in {"chat", "telegram"} : setView(v)
  \/ connectBot
  \/ \E c \in 1..Len(connects) : \E ok \in BOOLEAN : connectBotResolved(c, ok)
  \/ \E c \in 1..Len(connects) : connectBotRejected(c)
  \/ \E g \in intervals : pollTick(g)
  \/ \E p \in 1..Len(polls) : pollResolved(p)
  \/ \E p \in 1..Len(polls) : pollRejected(p)
  \/ \E text \in UpdateTexts : updateArrives(text)

SpecBot == InitBot /\ [][NextBot]_vars

\* the Telegram view with its settings inputs and its Quick Send buttons,
\* from the client's initial state
NextTgSend ==
  \/ \E v \in {"chat", "telegram", "settings"} : setView(v)
  \/ \E key \in SettingKeys : \E value \in SettingValues :
       updateSettings(key, value)
  \/ connectBot
  \/ \E c \in 1..Len(connects) : \E ok \in BOOLEAN : connectBotResolved(c, ok)
  \/ \E c \in 1..Len(connects) : connectBotRejected(c)
  \/ \E text \in BotCommands : \E now \in Timestamps : sendMsg(text, now)
  \/ \E k \in 1..Len(tgSends) : sendMsgResolved(k)
  \/ \E k \in 1..Len(tgSends) : sendMsgRejected(k)
  \/ \E t \in Tabs : setTab(t)
  \/ \E type \in TestTypes : testConnection(type)
  \/ \E k \in 1..Len(tests) : \E answer \in TelegramAnswers :
       telegramTestSettled(k, answer)

SpecTgSend == Init /\ [][NextTgSend]_vars

\* ------------------------------------------- single-batch specification
\* the server holds any list of distinct updates, in any order, and an
\* interval is live whose closure holds any offset
RECURSIVE Perms(_)
Perms(S) ==
  IF S = {} THEN {<<>>}
  ELSE UNION {{<<x>> \o t : t \in Perms(S \ {x})} : x \in S}

HeldLists ==
  UNION {UNION {{[i \in 1..Len(ids) |-> [update_id |-> ids[i], text |-> txt[i]]] :
                   txt \in [1..Len(ids) -> UpdateTexts]} :
                ids \in Perms(S)} :
         S \in SUBSET (1..MaxBatchId)}

InitBatch ==
  /\ messages = <<>> /\ sessionId = null /\ isLoading = FALSE
  /\ currentView = "telegram"
  /\ notifications = <<>> /\ unreadCount = 0 /\ exiting = NoToasts
  /\ InitHealth
  /\ commandBarOpen = FALSE /\ sends = <<>> /\ clears = 0 /\ uuid = 0
  /\ listeners = MountListeners
  /\ projects = <<>> /\ tasks = <<>> /\ activeProjectId = null
  /\ InitBoardView /\ calls = <<>>
  /\ remoteProjects = <<>> /\ remoteTasks = <<>> /\ remoteCount = 0
  /\ telegramConnected = TRUE
  /\ tgMessages = <<>>
  /\ isConnecting = FALSE
  /\ pollRef = 1
  /\ intervals = {1}
  /\ offsets \in {<<o>> : o \in 0..MaxStartOffset}
  /\ polls = <<>>
  /\ connects = <<[stage |-> "done", mounted |-> TRUE]>>
  /\ tgSends = <<>>
  /\ settings = [telegramToken |-> "x", telegramChatId |-> ""]
  /\ srvUpdates \in HeldLists
  /\ srvCount = MaxBatchId
  /\ op = [name |-> "init", id |-> 0]

NextBatch ==
  \/ \E g \in intervals : pollTick(g)
  \/ \E p \in 1..Len(polls) : pollResolved(p)
  \/ \E p \in 1..Len(polls) : pollRejected(p)

SpecBatch == InitBatch /\ [][NextBatch]_vars

\* the offset the next tick of the mounted view's interval will send
Cursor == IF pollRef = 0 THEN 0 ELSE offsets[pollRef]

\* C5: over any sequence of polls, overlapping ones and re-connects included,
\* no inbound update is appended to the message log twice and, while the
\* Telegram view stays on screen, the cursor never decreases.
C5_NoUpdateIngestedTwice ==
  [][/\ \A i, j \in 1..Len(tgMessages') :
          (/\ ~tgMessages'[i].isBot /\ ~tgMessages'[j].isBot
           /\ tgMessages'[i].id = tgMessages'[j].id) => i = j
     /\ (currentView = "telegram" /\ currentView' = "telegram")
          => Cursor' >= Cursor
    ]_vars

\* C6: processing a batch leaves the closure's offset at the maximum of its
\* old value and (largest update id of the batch + 1), whatever the order of
\* the batch and whether or not its updates carry text.
C6_OffsetIsMaxPlusOne ==
  [][op'.name = "pollResolved" =>
       LET p == polls'[op'.id]
           old == offsets[p.gen]
           new == offsets'[p.gen]
       IN  /\ new >= old
           /\ \A i \in 1..Len(p.result) : new >= p.result[i].update_id + 1
           /\ \/ new = old
              \/ \E i \in 1..Len(p.result) : new = p.result[i].update_id + 1
    ]_vars

\* C6 witness: a batch with ids 1, 3, 2 (the largest in the middle, one update
\* without text) has been processed and the offset is 4
C6_Witness ==
  /\ op.name = "pollResolved"
  /\ LET p == polls[op.id]
     IN  /\ Len(p.result) = 3
         /\ p.result[1].update_id = 1
         /\ p.result[2].update_id = 3
         /\ p.result[3].update_id = 2
         /\ \E i \in 1..3 : p.result[i].text = ""
         /\ offsets[p.gen] = 4

\* --------------------------------------------------- project specification
\* the backend stores none, one or two of the seed projects, with their tasks
InitProj ==
  /\ InitClient
  /\ \E n \in 0..Len(SeedProjects) :
       LET has(t) == \E i \in 1..n : SeedProjects[i]._id = t.project_id IN
       /\ remoteProjects = SubSeq(SeedProjects, 1, n)
       /\ remoteTasks = SelectSeq(SeedTasks, has)
       /\ remoteCount = n

NextProj ==
  \/ openProjects
  \/ leaveProjects
  \/ \E c \in 1..Len(calls) : loadProjectsResolved(c)
  \/ \E c \in 1..Len(calls) : loadProjectsRejected(c)
  \/ \E c \in 1..Len(calls) : loadTasksResolved(c)
  \/ \E c \in 1..Len(calls) : loadTasksRejected(c)
  \/ \E i \in 1..Len(projects) : selectProject(i)
  \/ \E name \in NewProjectNames : \E ok \in BOOLEAN :
       handleCreateProject(name, ok)
  \/ \E c \in 1..Len(calls) : createProjectResolved(c)
  \/ \E c \in 1..Len(calls) : createProjectRejected(c)

SpecProj == InitProj /\ [][NextProj]_vars

\* C8: in every reachable state activeProjectId is null or the id of a
\* project of the loaded project list.
C8_ActiveProjectIsLoaded ==
  activeProjectId = null \/ FindProject(projects, activeProjectId) # <<>>

\* the task loads that have not been answered
LoadsInFlight(cs) ==
  {c \in 1..Len(cs) : cs[c].type = "loadTasks" /\ cs[c].stage = "inflight"}

\* C18: every step that changes activeProjectId to a project id p while the
\* view is shown sends loadTasks(p); and when a task load has been answered
\* and no task load is in flight any more, the local task list is the list
\* the remote holds for the project that is active now.
C18_TasksFollowActiveProject ==
  /\ [][(activeProjectId' # activeProjectId /\ activeProjectId' # null
          /\ currentView' = "projects")
         => \E c \in LoadsInFlight(calls') :
              c > Len(calls) /\ calls'[c].pid = activeProjectId'
       ]_vars
  /\ [][(op'.name = "loadTasksResolved" /\ LoadsInFlight(calls') = {}
          /\ activeProjectId' # null)
         => tasks' = TasksOf(remoteTasks', activeProjectId')
       ]_vars

\* C10: when loadProjects succeeds for a view that was opened with
\* activeProjectId = null, activeProjectId becomes the id of the first loaded
\* project if there is one and is left as it is (null stays null) if the list
\* is empty; for a view opened with a non-null activeProjectId the load does
\* not change it.
C10_LoadSelectsFirstWhenNoneActive ==
  [][op'.name = "loadProjectsResolved" =>
       LET call == calls[op'.id] IN
       /\ projects' = call.data
       /\ (call.active = null /\ Len(call.data) > 0)
            => activeProjectId' = call.data[1]._id
       /\ (call.active = null /\ Len(call.data) = 0)
            => activeProjectId' = activeProjectId
       /\ call.active # null => activeProjectId' = activeProjectId
    ]_vars

\* C10 witness: the first load of a freshly opened board (nothing was active)
\* has resolved with two projects and the first one is now active
C10_Witness ==
  /\ op = [name |-> "loadProjectsResolved", id |-> 1]
  /\ mounts = 1
  /\ Len(projects) = 2
  /\ activeProjectId = projects[1]._id
  /\ \A c \in 1..Len(calls) : calls[c].type \in {"loadProjects", "loadTasks"}

\* ---------------------------------------------------- delete specification
\* the board as it is once the view has been opened on a backend that stores
\* the seed projects and both loads have resolved: the first project is active
InitLoaded ==
  /\ messages = <<>> /\ sessionId = null /\ isLoading = FALSE
  /\ currentView = "projects"
  /\ notifications = <<>> /\ unreadCount = 0 /\ exiting = NoToasts
  /\ InitHealth
  /\ commandBarOpen = FALSE /\ sends = <<>> /\ clears = 0 /\ uuid = 0
  /\ listeners = MountListeners
  /\ telegramConnected = FALSE /\ tgMessages = <<>> /\ isConnecting = FALSE
  /\ pollRef = 0 /\ offsets = <<>> /\ polls = <<>> /\ connects = <<>>
  /\ intervals = {} /\ tgSends = <<>>
  /\ settings = [telegramToken |-> "", telegramChatId |-> ""]
  /\ srvUpdates = <<>> /\ srvCount = 0
  /\ remoteProjects = SeedProjects
  /\ remoteTasks = SeedTasks
  /\ remoteCount = Len(SeedProjects)
  /\ projects = SeedProjects
  /\ activeProjectId = SeedProjects[1]._id
  /\ tasks = TasksOf(SeedTasks, SeedProjects[1]._id)
  /\ mounts = 1 /\ loading = FALSE
  /\ showDeleteProject = FALSE /\ deleteConfirmationName = <<>>
  /\ dragging = null
  /\ editingTask = <<>>
  /\ calls = <<Finished([NoCall EXCEPT !.type = "loadProjects"]),
               Finished([NoCall EXCEPT !.type = "loadTasks"])>>
  /\ op = [name |-> "loadTasksResolved", id |-> 2]

NextDelete ==
  \/ \E i \in 1..Len(projects) : selectProject(i)
  \/ \E c \in 1..Len(calls) : loadTasksResolved(c)
  \/ \E c \in 1..Len(calls) : loadTasksRejected(c)
  \/ openDeleteDialog
  \/ \E typed \in ConfirmInputs : typeConfirmation(typed)
  \/ cancelDeleteDialog
  \/ handleDeleteProject
  \/ \E c \in 1..Len(calls) : deleteProjectBlocked(c)
  \/ \E c \in 1..Len(calls) : \E ok \in BOOLEAN : deleteProjectSent(c, ok)
  \/ \E c \in 1..Len(calls) : deleteProjectResolved(c)
  \/ \E c \in 1..Len(calls) : deleteProjectRejected(c)

SpecDelete == InitLoaded /\ [][NextDelete]_vars

\* ------------------------------------------------------ task specification
NextTask ==
  \/ \E i \in 1..Len(tasks) : onDragStart(i)
  \/ \E key \in StatusKeys : \E ok \in BOOLEAN : onDrop(key, ok)
  \/ \E i \in 1..Len(tasks) : \E key \in StatusKeys : \E ok \in BOOLEAN :
       moveButton(i, key, ok)
  \/ \E c \in 1..Len(calls) : statusResolved(c)
  \/ \E c \in 1..Len(calls) : statusRejected(c)
  \/ \E title \in TaskTitles : \E ok \in BOOLEAN : handleCreateTask(title, ok)
  \/ \E c \in 1..Len(calls) : createTaskResolved(c)
  \/ \E c \in 1..Len(calls) : createTaskRejected(c)
  \/ \E i \in 1..Len(tasks) : \E ok \in BOOLEAN : handleDeleteTask(i, ok)
  \/ \E c \in 1..Len(calls) : deleteTaskResolved(c)
  \/ \E c \in 1..Len(calls) : deleteTaskRejected(c)

SpecTask == InitLoaded /\ [][NextTask]_vars

\* the task board with its edit dialog as well
NextEdit ==
  \/ NextTask
  \/ \E i \in 1..Len(tasks) : handleOpenEditTask(i)
  \/ cancelEditTask
  \/ \E ok \in BOOLEAN : handleUpdateTask(ok)
  \/ \E c \in 1..Len(calls) : updateTaskResolved(c)
  \/ \E c \in 1..Len(calls) : updateTaskRejected(c)

SpecEdit == InitLoaded /\ [][NextEdit]_vars

\* the local tasks a status change addresses: those whose id or _id is taskId
Addressed(ts, taskId) ==
  {i \in 1..Len(ts) : taskId # undefined /\ taskId \in {ts[i].id, ts[i]._id}}

\* C4: right after changeStatus(taskId, newStatus) is called, before any
\* response, the local task already has status = newStatus (the optimistic
\* write). handleStatusChange writes only after the awaited update.
C4_StatusSetImmediately ==
  [][op'.name \in {"onDrop", "moveButton"} =>
       LET call == calls'[op'.id] IN
       \A i \in Addressed(tasks', call.taskId) : tasks'[i].status = call.status
    ]_vars

\* C16: when the remote update of a status change has failed, the addressed
\* local task holds the new status (applied optimistically and not rolled
\* back) and no notification is pushed. Without the optimistic write of C4
\* the task still has its previous status.
C16_FailureKeepsOptimisticStatus ==
  [][op'.name = "statusRejected" =>
       LET call == calls[op'.id] IN
       /\ \A i \in Addressed(tasks', call.taskId) :
            tasks'[i].status = call.status
       /\ notifications' = notifications /\ unreadCount' = unreadCount
    ]_vars

\* the positions of the local list that hold the task with the given id
Holding(ts, tid) == {i \in 1..Len(ts) : ts[i].id = tid \/ ts[i]._id = tid}

\* C17: while a createTask request is unanswered the local task list does
\* not hold the new task; the step that handles its success writes a list
\* that is the list the handler started from followed by exactly the entity
\* the remote returned, once; the step that handles its failure leaves the
\* task list unchanged and pushes exactly one notification, of type error.
C17_NoSpeculativeCreate ==
  /\ [](\A c \in 1..Len(calls) :
          (calls[c].type = "createTask" /\ calls[c].stage = "inflight"
           /\ calls[c].ok)
            => Holding(tasks, calls[c].data.id) = {})
  /\ [][op'.name = "handleCreateTask" =>
          tasks' = tasks /\ notifications' = notifications]_vars
  /\ [][op'.name = "createTaskResolved" =>
          LET call == calls[op'.id] IN
          /\ Len(tasks') = Len(call.tasks) + 1
          /\ tasks'[Len(tasks')] = call.data
          /\ call.data \in {remoteTasks[i] : i \in 1..Len(remoteTasks)}
          /\ Holding(tasks', call.data.id) = {Len(tasks')}
          /\ \A i \in 1..Len(call.tasks) : tasks'[i] = call.tasks[i]
       ]_vars
  /\ [][op'.name = "createTaskRejected" =>
          /\ tasks' = tasks
          /\ Len(notifications') = Len(notifications) + 1
          /\ notifications'[1].type = "error"
          /\ unreadCount' = unreadCount + 1
       ]_vars

\* C17 witness: a create has succeeded and the returned entity is the last
\* task of the local list, after the tasks that had been loaded
C17_Witness ==
  /\ op.name = "createTaskResolved"
  /\ Len(tasks) = 3
  /\ tasks[3] = remoteTasks[Len(remoteTasks)]
  /\ tasks[3].project_id = activeProjectId
  /\ notifications # <<>> /\ notifications[1].type = "success"

\* C27: the step that completes a successful task mutation keeps what the
\* mutations completed before it have written: a status change and an update
\* rewrite no task but those they address and keep the length of the list, a
\* create keeps every task of the list and adds one, a delete removes the
\* tasks it addresses and keeps the others.
C27_NoLostTaskUpdate ==
  [][/\ op'.name = "statusResolved" =>
          /\ Len(tasks') = Len(tasks)
          /\ \A i \in 1..Len(tasks) :
               tasks'[i] # tasks[i] => tasks[i].id = calls[op'.id].taskId
     /\ op'.name = "createTaskResolved" =>
          /\ Len(tasks') = Len(tasks) + 1
          /\ \A i \in 1..Len(tasks) : tasks'[i] = tasks[i]
     /\ op'.name = "updateTaskResolved" =>
          /\ Len(tasks') = Len(tasks)
          /\ \A i \in 1..Len(tasks) :
               tasks'[i] # tasks[i] =>
                 i \in Addressed(tasks, calls[op'.id].taskId)
     /\ op'.name = "deleteTaskResolved" =>
          tasks' = WithoutTask(tasks, calls[op'.id].taskId)
    ]_vars

\* C29: the step that completes a successful status change, started by a
\* drop or by a move button, leaves the task it was made for (the local task
\* whose id or _id is the identifier that was sent) with the new status, and
\* every other task as it was when the change was requested.
C29_StatusChangeByEitherId ==
  [][op'.name = "statusResolved" =>
       LET call == calls[op'.id] IN
       /\ Len(tasks') = Len(call.tasks)
       /\ \A i \in 1..Len(tasks') :
            IF i \in Addressed(call.tasks, call.taskId)
            THEN tasks'[i] = [call.tasks[i] EXCEPT !.status = call.status]
            ELSE tasks'[i] = call.tasks[i]
    ]_vars

\* the name of the active project in the local list, <<>> when there is none
ActiveName ==
  LET found == FindProject(projects, activeProjectId)
  IN  IF found = <<>> THEN <<>> ELSE <<found[1].name>>

\* C9: the remote delete is sent only for a click made while the typed
\* confirmation was exactly the active project's name (no trimming, case
\* kept); a click on any mismatch sends no request and leaves the project
\* list and activeProjectId as they were.
C9_DeleteOnlyOnExactName ==
  [][/\ (op'.name = "handleDeleteProject"
          /\ ActiveName # <<deleteConfirmationName>>)
         => /\ calls' = calls
            /\ projects' = projects
            /\ activeProjectId' = activeProjectId
            /\ UNCHANGED boardRemote
     /\ op'.name = "deleteProjectSent"
         => LET call == calls[op'.id]
                found == FindProject(call.projects, call.pid)
            IN  /\ found # <<>>
                /\ found[1].name = call.typed
    ]_vars

\* C9 witness: DELETE PROJECT was clicked with "A" typed while the active
\* project is named "A " (trailing space), and no delete request exists
C9_Witness ==
  /\ op = [name |-> "handleDeleteProject", id |-> 0]
  /\ deleteConfirmationName = <<"A">>
  /\ ActiveName = << <<"A", " ">> >>
  /\ \A c \in 1..Len(calls) : calls[c].type # "deleteProject"
  /\ projects = SeedProjects

====
